---- MODULE Spec2Model ----
(***************************************************************************)
(* Model of the price pipeline of solana-arbitrage-watcher: the two-slot   *)
(* PriceCache written by the two feeds, the stale-price cleanup, the       *)
(* PriceProcessor validation, the FeeCalculator and the ArbitrageDetector  *)
(* loops (ArbitrageDetector::start_detection, wait_for_opportunity and the *)
(* detection loop of main).                                                *)
(*                                                                         *)
(* Units.  Prices are f64 in the code; here a finite price is an integer   *)
(* number of tenths of a quote unit (195.1 is 1951), NaN and +infinity are *)
(* two values outside the finite range.  Time is counted in steps of 5 s   *)
(* (the default max_price_age_ms), percentages in hundredths of a percent. *)
(***************************************************************************)
EXTENDS Integers, FiniteSets, Sequences, TLC

VARIABLES
    now,               \* SystemTime::now(), in time units
    config,            \* Config: pair, threshold, max_price_age_ms, price_bounds
    price_cache,       \* PriceCache: solana_price, binance_price
    read_locks,        \* read guards held on the two RwLocks of the cache
    cleanup_pc,        \* position of the cleanup task inside clear_stale_prices
    last_pushed,       \* history: the latest PriceUpdate each feed pushed
    stats,             \* ArbitrageDetector.stats (DetectionStats)
    is_running,        \* ArbitrageDetector.is_running
    validation_enabled,\* PriceProcessor.validation_enabled
    stop_requested,    \* history: stop_detection has been called
    op,                \* the detector operation in progress
    pc,                \* position inside that operation
    phase,             \* which get_validated_prices call is reading the cache
    snap,              \* locals of get_both_prices: the clones taken so far
    wait,              \* locals of wait_for_opportunity: start, timeout
    last,              \* result of the latest check_for_opportunities call
    emitted,           \* what the latest tick handed to the callback / printed
    ret,               \* return value of the latest finished operation
    metrics,           \* MetricsCollector: the atomic counters and queue depths
    handler,           \* a ReconnectHandler: config, attempt_count, start_time,
                       \* current_delay
    returned,          \* result of the latest should_reconnect call on it
    feed,              \* a feed task: the client and its position inside start
    process,           \* main: "running" until the shutdown signal, "shutdown" once
                       \* the task handles are aborted, "stopped" when it has returned
    in_flight,         \* the set_queue_depth call each thread is in: position, depth,
                       \* current_max
    passed,            \* history: the depths passed to set_queue_depth since reset
    performance        \* what the latest get_metrics call produced

vars ==
    <<now, config, price_cache, read_locks, cleanup_pc, last_pushed, stats,
      is_running, validation_enabled, stop_requested, op, pc, phase, snap, wait, last,
      emitted, ret, metrics, handler, returned, feed, process, in_flight, passed,
      performance>>

storeVars == <<price_cache, read_locks, cleanup_pc, last_pushed>>
reconnectVars == <<handler, returned>>
feedVars == <<feed, process>>
metricsVars == <<in_flight, passed, performance>>
detectorVars ==
    <<stats, is_running, validation_enabled, stop_requested, op, pc, phase, snap,
      wait, last, emitted, ret, metrics>>

----------------------------------------------------------------------------
(* Bounds of the model *)

\* the clock stops after MaxTime steps
MaxTime == 2
\* no new tick starts once total_checks has reached MaxChecks
MaxChecks == 2
\* no new tick starts once processing_errors has reached MaxErrors
MaxErrors == 2
\* the longest timeout handed to wait_for_opportunity
MaxTimeout == 1
\* calls of should_reconnect between two resets
MaxCalls == 7
\* the longest list of rpc_providers
MaxProviders == 2
\* at most MaxMessages messages of each feed are recorded on the collector
MaxMessages == 2
\* threads calling set_queue_depth at the same time
MaxThreads == 2

----------------------------------------------------------------------------
(* f64 prices *)

\* f64::NAN and f64::INFINITY; every finite price of the model lies strictly between
NaN == -99999999
PosInf == 99999999

is_finite(x) == x # NaN /\ x # PosInf

\* IEEE-754 comparisons: any comparison with NaN is false
FLt(x, y) == x # NaN /\ y # NaN /\ x < y
FGt(x, y) == x # NaN /\ y # NaN /\ x > y
FLe(x, y) == x # NaN /\ y # NaN /\ x <= y
FGe(x, y) == x # NaN /\ y # NaN /\ x >= y

\* prices the two feeds deliver while the pipeline runs (tenths): the pool price is
\* a ratio of reserves, the ticker price is whatever number its text parses to
SolanaFeedPrices == {1900, 1950}
BinanceFeedPrices == {1950, 1951, -10}

\* every kind of f64 a cache slot can hold
AllPrices == {NaN, PosInf, -10, 0, 5, 500, 1900, 1950, 1951, 100010}

----------------------------------------------------------------------------
(* Configuration *)

\* hard-coded range of validate_price_value: 1.0 and 10000.0
MIN_SOL_PRICE == 10
MAX_SOL_PRICE == 100000

\* --min-price / --max-price defaults: 1.0 and 10000.0
DEFAULT_MIN_PRICE == 10
DEFAULT_MAX_PRICE == 100000

\* --max-price-age-ms default: 5000 ms, one time unit
DEFAULT_MAX_PRICE_AGE == 1

PriceBoundsOk(min_price, max_price) ==
    /\ is_finite(min_price) /\ is_finite(max_price)
    /\ ~(min_price <= 0)
    /\ ~(max_price <= min_price)

\* thresholds in hundredths of a percent: 0.1 % (the default) and 5 %
Thresholds == {10, 500}

\* price bounds (min, max): the defaults and 100.0 .. 300.0
BoundsChoices == {<<DEFAULT_MIN_PRICE, DEFAULT_MAX_PRICE>>, <<1000, 3000>>}

MkConfig(threshold, bounds) ==
    [pair |-> "SolUsdt",
     threshold |-> threshold,
     max_price_age_ms |-> DEFAULT_MAX_PRICE_AGE,
     price_bounds |-> [min_price |-> bounds[1], max_price |-> bounds[2]]]

\* Config::new accepts a threshold in [0, 100] and bounds with 0 < min < max
ConfigNew(thresholds, bounds) ==
    {MkConfig(t, b) : t \in {x \in thresholds : x >= 0 /\ x <= 10000},
                      b \in {y \in bounds : PriceBoundsOk(y[1], y[2])}}

----------------------------------------------------------------------------
(* price/types.rs *)

Sources == {"Solana", "Binance"}

\* Option::None of a cache slot
None == [price |-> 0, source |-> "None", timestamp |-> 0]

IsSome(x) == x # None

\* calculate_age_ms: now - timestamp, 0 when the timestamp lies in the future
calculate_age_ms(timestamp, t) == IF t >= timestamp THEN t - timestamp ELSE 0

\* PriceUpdate::new
PriceUpdateNew(source, pair, price, t) ==
    [source |-> source, pair |-> pair, price |-> price, timestamp |-> t]

\* from_update tagging every price as a Binance price
FromUpdateTaggedBinance(update) ==
    [price |-> update.price, source |-> "Binance", timestamp |-> update.timestamp]

\* SourcePrice::from_update
from_update(update) ==
    [price |-> update.price, source |-> update.source, timestamp |-> update.timestamp]

\* SourcePrice::is_stale
is_stale(sp, max_age_ms, t) == calculate_age_ms(sp.timestamp, t) > max_age_ms

\* PriceCache::new
PriceCacheNew == [solana_price |-> None, binance_price |-> None]

SlotOf(source) == IF source = "Solana" THEN "solana_price" ELSE "binance_price"

\* a mis-routed update: the slot of the other source is replaced
UpdateOtherSlot(cache, update) ==
    IF update.source = "Solana"
    THEN [cache EXCEPT !.binance_price = from_update(update)]
    ELSE [cache EXCEPT !.solana_price = from_update(update)]

\* PriceCache::update: the slot of update.source is replaced
CacheUpdate(cache, update) ==
    IF update.source = "Solana"
    THEN [cache EXCEPT !.solana_price = from_update(update)]
    ELSE [cache EXCEPT !.binance_price = from_update(update)]

\* one slot of clear_stale_prices emptying also a slot whose age equals the maximum
ClearIfAgeAtLeast(slot, max_age_ms, t) ==
    IF IsSome(slot) /\ calculate_age_ms(slot.timestamp, t) >= max_age_ms
    THEN None ELSE slot

\* one slot of clear_stale_prices
ClearIfStale(slot, max_age_ms, t) ==
    IF IsSome(slot) /\ is_stale(slot, max_age_ms, t) THEN None ELSE slot

\* RwLock::write succeeds only while no read guard is held on that lock
CanWrite(source) == read_locks[SlotOf(source)] = 0

----------------------------------------------------------------------------
(* arbitrage/calculator.rs *)

\* TradingFees::default, in hundredths of a percent (0.1 % and 0.25 %),
\* thousandths of a SOL (0.001) and tenths of a quote unit (0.0)
BINANCE_SPOT_FEE == 10
SOLANA_DEX_FEE == 25
SOLANA_GAS_FEE == 1
TRANSFER_FEE == 0
\* FeeCalculator::default: 10 SOL
DEFAULT_TRADE_AMOUNT == 10

\* fee amounts are kept as tenths * 10^4, so that a percentage of a price is exact
FEE_SCALE == 10000

\* TradingFees::get_trading_fee
get_trading_fee(source) ==
    IF source = "Binance" THEN BINANCE_SPOT_FEE ELSE SOLANA_DEX_FEE

\* Option::None of an ArbitrageOpportunity
NoOpportunity ==
    [buy_source |-> "None", sell_source |-> "None", buy_price |-> 0, sell_price |-> 0,
     raw_profit_per_unit |-> 0, per_unit_fees |-> 0, per_trade_fees |-> 0,
     net_profit_per_unit |-> 0, recommended_amount |-> 0, estimated_total_profit |-> 0]

\* ValidatedPricePair::get_price
get_price(prices, source) ==
    IF source = "Solana" THEN prices.solana_price ELSE prices.binance_price

\* calculate_fee_breakdown charging no gas
FeeBreakdownNoGas(buy_price, sell_price, buy_source, sell_source) ==
    <<buy_price * get_trading_fee(buy_source)
      + sell_price * get_trading_fee(sell_source), 0>>

\* calculate_fee_breakdown: (per_unit_fees, per_trade_fees), both * FEE_SCALE
calculate_fee_breakdown(buy_price, sell_price, buy_source, sell_source) ==
    LET buy_fee == buy_price * get_trading_fee(buy_source)
        sell_fee == sell_price * get_trading_fee(sell_source)
        transfer_fee == IF buy_source # sell_source THEN TRANSFER_FEE * FEE_SCALE ELSE 0
        sol_price == IF buy_source = "Solana" THEN buy_price ELSE sell_price
        gas_fee_usd_total ==
            IF buy_source = "Solana" \/ sell_source = "Solana"
            THEN SOLANA_GAS_FEE * sol_price * (FEE_SCALE \div 1000)
            ELSE 0
    IN  <<buy_fee + sell_fee + transfer_fee, gas_fee_usd_total>>

\* calculate_recommended_amount
calculate_recommended_amount(net_profit_per_unit) ==
    IF net_profit_per_unit > 0 THEN DEFAULT_TRADE_AMOUNT ELSE 1

\* calculate_opportunity answering also when the raw profit is not positive
CalculateNoRawCheck(prices) ==
    LET buy_source == IF prices.solana_price.price < prices.binance_price.price
                      THEN "Solana" ELSE "Binance"
        sell_source == IF buy_source = "Solana" THEN "Binance" ELSE "Solana"
        buy_price == get_price(prices, buy_source).price
        sell_price == get_price(prices, sell_source).price
    IN  [NoOpportunity EXCEPT !.buy_source = buy_source, !.sell_source = sell_source,
                              !.buy_price = buy_price, !.sell_price = sell_price,
                              !.raw_profit_per_unit = sell_price - buy_price,
                              !.net_profit_per_unit = sell_price - buy_price]

\* calculate_opportunity that only ever buys on Solana
CalculateBuyOnSolana(prices) ==
    LET buy_price == prices.solana_price.price
        sell_price == prices.binance_price.price
    IN  IF sell_price - buy_price <= 0
        THEN NoOpportunity
        ELSE [NoOpportunity EXCEPT !.buy_source = "Solana", !.sell_source = "Binance",
                                   !.buy_price = buy_price, !.sell_price = sell_price,
                                   !.raw_profit_per_unit = sell_price - buy_price,
                                   !.net_profit_per_unit = sell_price - buy_price]

\* FeeCalculator::calculate_opportunity.  net_profit_per_unit is kept multiplied by
\* FEE_SCALE * DEFAULT_TRADE_AMOUNT (the gas is amortised over the default amount),
\* estimated_total_profit by FEE_SCALE.
calculate_opportunity(prices) ==
    LET sources == IF prices.solana_price.price < prices.binance_price.price
                   THEN <<"Solana", "Binance">>
                   ELSE <<"Binance", "Solana">>
        buy_source == sources[1]
        sell_source == sources[2]
        buy_price == get_price(prices, buy_source).price
        sell_price == get_price(prices, sell_source).price
        raw_profit_per_unit == sell_price - buy_price
        fees == calculate_fee_breakdown(buy_price, sell_price, buy_source, sell_source)
        per_unit_fees == fees[1]
        per_trade_fees == fees[2]
        net_profit_per_unit ==
            (raw_profit_per_unit * FEE_SCALE - per_unit_fees) * DEFAULT_TRADE_AMOUNT
            - per_trade_fees
        recommended_amount == calculate_recommended_amount(net_profit_per_unit)
    IN  IF raw_profit_per_unit <= 0
        THEN NoOpportunity
        ELSE [buy_source |-> buy_source, sell_source |-> sell_source,
              buy_price |-> buy_price, sell_price |-> sell_price,
              raw_profit_per_unit |-> raw_profit_per_unit,
              per_unit_fees |-> per_unit_fees, per_trade_fees |-> per_trade_fees,
              net_profit_per_unit |-> net_profit_per_unit,
              recommended_amount |-> recommended_amount,
              estimated_total_profit |->
                  (raw_profit_per_unit * FEE_SCALE - per_unit_fees) * recommended_amount
                  - per_trade_fees]

\* ArbitrageOpportunity::is_profitable
is_profitable(opp) == opp.net_profit_per_unit > 0

\* ArbitrageOpportunity::exceeds_threshold: profit_percentage >= threshold, where
\* profit_percentage = net_profit_per_unit / buy_price * 100 and the threshold is in
\* hundredths of a percent (buy_price > 0 for every validated pair)
exceeds_threshold(opp, threshold) ==
    opp.net_profit_per_unit >= threshold * opp.buy_price * DEFAULT_TRADE_AMOUNT

\* a.profit_percentage > b.profit_percentage: the quotients net_profit_per_unit /
\* buy_price compared by integer part, then by remainder (buy_price > 0)
HigherProfitPercentage(a, b) ==
    LET qa == a.net_profit_per_unit \div a.buy_price
        ra == a.net_profit_per_unit % a.buy_price
        qb == b.net_profit_per_unit \div b.buy_price
        rb == b.net_profit_per_unit % b.buy_price
    IN  qa > qb \/ (qa = qb /\ ra * b.buy_price > rb * a.buy_price)

----------------------------------------------------------------------------
(* price/processor.rs *)

\* Option::None of get_both_prices
NoPair == [solana_price |-> None, binance_price |-> None]

\* ValidatedPricePair::new with the spread taken relative to the Solana price
PairSpreadBySolana(solana_price, binance_price) ==
    LET price_spread == IF solana_price.price >= binance_price.price
                        THEN solana_price.price - binance_price.price
                        ELSE binance_price.price - solana_price.price
    IN  [solana_price |-> solana_price,
         binance_price |-> binance_price,
         price_spread |-> price_spread,
         price_spread_percentage |->
             [num |-> price_spread * 100, den |-> solana_price.price]]

\* ValidatedPricePair::new; price_spread is (solana - binance).abs() and
\* price_spread_percentage the exact quotient (price_spread / binance) * 100,
\* kept as numerator and denominator
ValidatedPricePairNew(solana_price, binance_price) ==
    LET price_spread == IF solana_price.price >= binance_price.price
                        THEN solana_price.price - binance_price.price
                        ELSE binance_price.price - solana_price.price
    IN  [solana_price |-> solana_price,
         binance_price |-> binance_price,
         price_spread |-> price_spread,
         price_spread_percentage |->
             [num |-> price_spread * 100, den |-> binance_price.price]]

\* the spread of no pair
NoSpread == [price_spread |-> 0, price_spread_percentage |-> [num |-> 0, den |-> 1]]

\* price_spread and price_spread_percentage of a ValidatedPricePair
SpreadOf(prices) ==
    [price_spread |-> prices.price_spread,
     price_spread_percentage |-> prices.price_spread_percentage]

\* results of the validation steps: Ok(()) or a ProcessorError
ResultOk == [kind |-> "Ok", age_ms |-> 0, max_age_ms |-> 0, price |-> 0]
NoFreshData == [kind |-> "NoFreshData", age_ms |-> 0, max_age_ms |-> 0, price |-> 0]
StaleData(age_ms, max_age_ms) ==
    [kind |-> "StaleData", age_ms |-> age_ms, max_age_ms |-> max_age_ms, price |-> 0]
InvalidPrice(price) ==
    [kind |-> "InvalidPrice", age_ms |-> 0, max_age_ms |-> 0, price |-> price]

\* validate_price_freshness treating an age equal to the maximum as stale
FreshnessAgeAtLeast(sp, max_price_age, t) ==
    LET age_ms == calculate_age_ms(sp.timestamp, t)
    IN  IF age_ms >= max_price_age THEN StaleData(age_ms, max_price_age) ELSE ResultOk

\* validate_price_freshness
validate_price_freshness(sp, max_price_age, t) ==
    LET age_ms == calculate_age_ms(sp.timestamp, t)
    IN  IF age_ms > max_price_age THEN StaleData(age_ms, max_price_age) ELSE ResultOk

\* validate_price_value: the range is the hard-coded one, not config.price_bounds
validate_price_value(sp) ==
    IF ~is_finite(sp.price) \/ FLe(sp.price, 0)
    THEN InvalidPrice(sp.price)
    ELSE IF FLt(sp.price, MIN_SOL_PRICE) \/ FGt(sp.price, MAX_SOL_PRICE)
         THEN InvalidPrice(sp.price)
         ELSE ResultOk

\* the value checks made before the freshness checks
ValidateValueFirst(both, max_price_age, enabled, t) ==
    IF both = NoPair THEN NoFreshData
    ELSE IF enabled /\ validate_price_value(both.solana_price).kind # "Ok"
         THEN validate_price_value(both.solana_price)
    ELSE IF enabled /\ validate_price_value(both.binance_price).kind # "Ok"
         THEN validate_price_value(both.binance_price)
    ELSE IF validate_price_freshness(both.solana_price, max_price_age, t).kind # "Ok"
         THEN validate_price_freshness(both.solana_price, max_price_age, t)
    ELSE validate_price_freshness(both.binance_price, max_price_age, t)

\* PriceProcessor::get_validated_prices on the pair get_both_prices returned:
\* Ok (the pair is then ValidatedPricePairNew of the two prices) or the first error
get_validated_prices(both, max_price_age, enabled, t) ==
    IF both = NoPair THEN NoFreshData
    ELSE IF validate_price_freshness(both.solana_price, max_price_age, t).kind # "Ok"
         THEN validate_price_freshness(both.solana_price, max_price_age, t)
    ELSE IF validate_price_freshness(both.binance_price, max_price_age, t).kind # "Ok"
         THEN validate_price_freshness(both.binance_price, max_price_age, t)
    ELSE IF enabled /\ validate_price_value(both.solana_price).kind # "Ok"
         THEN validate_price_value(both.solana_price)
    ELSE IF enabled /\ validate_price_value(both.binance_price).kind # "Ok"
         THEN validate_price_value(both.binance_price)
    ELSE ResultOk

----------------------------------------------------------------------------
(* arbitrage/detector.rs: results and statistics *)

\* DetectionStats::default
DetectionStatsDefault ==
    [total_checks |-> 0, opportunities_found |-> 0, threshold_opportunities |-> 0,
     best_opportunity |-> NoOpportunity]

\* DetectionStats::update_check (the running average of the spread is not kept)
update_check(s) == [s EXCEPT !.total_checks = @ + 1]

\* DetectionStats::update_opportunity
update_opportunity(s, opp, meets_threshold) ==
    [s EXCEPT !.opportunities_found = @ + 1,
              !.threshold_opportunities = IF meets_threshold THEN @ + 1 ELSE @,
              !.best_opportunity =
                  IF s.best_opportunity = NoOpportunity
                     \/ HigherProfitPercentage(opp, s.best_opportunity)
                  THEN opp ELSE @]

\* Result<Option<ArbitrageOpportunity>, DetectorError> of check_for_opportunities,
\* with two locals of that call: the answer of calculate_opportunity (calculated)
\* and the spread of the validated pair (spread);
\* kind "None" before the first call
NoResult ==
    [kind |-> "None", opp |-> NoOpportunity, error |-> ResultOk,
     calculated |-> NoOpportunity, spread |-> NoSpread]

\* check_for_opportunities without the is_profitable filter
CheckResultUnfiltered(validated, both) ==
    IF validated.kind # "Ok"
    THEN [kind |-> "Err", opp |-> NoOpportunity, error |-> validated,
          calculated |-> NoOpportunity, spread |-> NoSpread]
    ELSE LET prices == ValidatedPricePairNew(both.solana_price, both.binance_price)
             opportunity == calculate_opportunity(prices)
         IN  [kind |-> "Ok", opp |-> opportunity, error |-> ResultOk,
              calculated |-> opportunity, spread |-> SpreadOf(prices)]

\* the value check_for_opportunities returns for a validation result:
\* Err(ProcessorError), or Ok(calculate_opportunity(..).filter(is_profitable))
CheckResult(validated, both) ==
    IF validated.kind # "Ok"
    THEN [kind |-> "Err", opp |-> NoOpportunity, error |-> validated,
          calculated |-> NoOpportunity, spread |-> NoSpread]
    ELSE LET prices == ValidatedPricePairNew(both.solana_price, both.binance_price)
             opportunity == calculate_opportunity(prices)
         IN  [kind |-> "Ok",
              opp |-> IF opportunity # NoOpportunity /\ is_profitable(opportunity)
                      THEN opportunity ELSE NoOpportunity,
              error |-> ResultOk,
              calculated |-> opportunity,
              spread |-> SpreadOf(prices)]

\* check_for_opportunities leaving the statistics alone
CheckStatsUnchanged(s, validated) == s

\* the statistics after check_for_opportunities: one update_check per validated pair
CheckStats(s, validated) == IF validated.kind = "Ok" THEN update_check(s) ELSE s

\* what a tick hands to the subscriber or prints
NoOutput == [kind |-> "None", opp |-> NoOpportunity]
OutputOpportunity(opp) == [kind |-> "Opportunity", opp |-> opp]
OutputNoOpportunities == [kind |-> "NoOpportunities", opp |-> NoOpportunity]
OutputError == [kind |-> "Error", opp |-> NoOpportunity]

\* return value of a finished operation
NoReturn == [kind |-> "None", opp |-> NoOpportunity, error |-> ResultOk]

\* MetricsCollector::new
MetricsNew ==
    [processing_errors |-> 0, opportunities_found |-> 0, solana_messages |-> 0,
     binance_messages |-> 0, current_queue_depth |-> 0, max_queue_depth |-> 0]

\* MetricsCollector::reset, the counters of the model
MetricsReset(m) == MetricsNew

\* MetricsCollector::record_solana_message
record_solana_message(m) == [m EXCEPT !.solana_messages = @ + 1]

\* MetricsCollector::record_binance_message
record_binance_message(m) == [m EXCEPT !.binance_messages = @ + 1]

\* set_queue_depth: self.current_queue_depth.store(depth)
StoreDepth(m, depth) == [m EXCEPT !.current_queue_depth = depth]

\* set_queue_depth: if depth > current_max { self.max_queue_depth.store(depth) }
StoreMaxIfAbove(m, depth, current_max) ==
    IF depth > current_max THEN [m EXCEPT !.max_queue_depth = depth] ELSE m

\* MetricsCollector::set_queue_depth when no other call runs between its statements
set_queue_depth(m, depth) ==
    LET stored == StoreDepth(m, depth)
    IN  StoreMaxIfAbove(stored, depth, stored.max_queue_depth)

\* the quotient (total_msgs - errors) as f64 / total_msgs as f64 * 100.0 when the
\* u64 subtraction has wrapped to at least 2^64 - errors: far above 100
WrappedEfficiency == 99999998

\* what get_metrics produces; `kind` is "Panic" when the call panicked
NoMetrics ==
    [kind |-> "None", messages_processed |-> 0, errors_encountered |-> 0,
     processing_efficiency_pct |-> 0, current_queue_depth |-> 0]

\* MetricsCollector::get_metrics: the counters and the efficiency in hundredths of
\* a percent. total_msgs - errors is a u64 subtraction: with more errors than
\* messages it panics in a build with overflow checks and wraps in one without
get_metrics(m) ==
    LET total_msgs == m.solana_messages + m.binance_messages
        errors == m.processing_errors
        Snapshot(efficiency) ==
            [kind |-> "Ok", messages_processed |-> total_msgs,
             errors_encountered |-> errors,
             processing_efficiency_pct |-> efficiency,
             current_queue_depth |-> m.current_queue_depth]
    IN  IF total_msgs = 0
        THEN {Snapshot(10000)}
        ELSE IF errors <= total_msgs
        THEN {Snapshot(((total_msgs - errors) * 10000) \div total_msgs)}
        ELSE {[NoMetrics EXCEPT !.kind = "Panic"], Snapshot(WrappedEfficiency)}

\* MetricsCollector::record_error
record_error(m) == [m EXCEPT !.processing_errors = @ + 1]

\* MetricsCollector::record_opportunity
record_opportunity(m) == [m EXCEPT !.opportunities_found = @ + 1]

NoWait == [start |-> 0, timeout |-> 0]

----------------------------------------------------------------------------
(* The feeds, the cleanup task and the clock *)

NoUpdate == [source |-> "None", pair |-> "SolUsdt", price |-> 0, timestamp |-> 0]

NoLocks == [solana_price |-> 0, binance_price |-> 0]

\* get_both_prices returning with the read guard of the Solana slot leaked
KeepSolanaGuard(locks) == [locks EXCEPT !.binance_price = 0]

\* get_both_prices returns: solana_lock and binance_lock go out of scope
DropGuards(locks) == NoLocks

\* websocket/mod.rs: a feed parses a message into PriceUpdate::new(source, pair, price)
\* and its callback runs price_cache.update(&price_update) under the slot's write lock
FeedUpdate(source, price) ==
    /\ CanWrite(source)
    /\ LET update == PriceUpdateNew(source, config.pair, price, now)
       IN  /\ price_cache' = CacheUpdate(price_cache, update)
           /\ last_pushed' = [last_pushed EXCEPT ![source] = update]
    /\ UNCHANGED <<now, config, metricsVars, read_locks, cleanup_pc>>
    /\ UNCHANGED <<detectorVars, reconnectVars, feedVars>>

BinanceFeed == \E price \in BinanceFeedPrices : FeedUpdate("Binance", price)

SolanaFeed == \E price \in SolanaFeedPrices : FeedUpdate("Solana", price)

\* clear_stale_prices, first half: the Solana slot under its write lock
ClearStaleSolana ==
    /\ cleanup_pc = "solana"
    /\ CanWrite("Solana")
    /\ LET slot == ClearIfStale(price_cache.solana_price, config.max_price_age_ms, now)
       IN  /\ price_cache' = [price_cache EXCEPT !.solana_price = slot]
           /\ last_pushed' = IF slot = None
                             THEN [last_pushed EXCEPT !["Solana"] = NoUpdate]
                             ELSE last_pushed
    /\ cleanup_pc' = "binance"
    /\ UNCHANGED <<now, config, metricsVars, read_locks>>
    /\ UNCHANGED <<detectorVars, reconnectVars, feedVars>>

\* clear_stale_prices, second half: the Binance slot under its write lock
ClearStaleBinance ==
    /\ cleanup_pc = "binance"
    /\ CanWrite("Binance")
    /\ LET slot == ClearIfStale(price_cache.binance_price, config.max_price_age_ms, now)
       IN  /\ price_cache' = [price_cache EXCEPT !.binance_price = slot]
           /\ last_pushed' = IF slot = None
                             THEN [last_pushed EXCEPT !["Binance"] = NoUpdate]
                             ELSE last_pushed
    /\ cleanup_pc' = "solana"
    /\ UNCHANGED <<now, config, metricsVars, read_locks>>
    /\ UNCHANGED <<detectorVars, reconnectVars, feedVars>>

\* time passes
ClockTick ==
    /\ now < MaxTime
    /\ now' = now + 1
    /\ UNCHANGED <<config, metricsVars, storeVars>>
    /\ UNCHANGED <<detectorVars, reconnectVars, feedVars>>

----------------------------------------------------------------------------
(* arbitrage/detector.rs and main.rs: the operations of the detector *)

Idle == op = "none" /\ pc = "idle"

\* main.rs: the detection task enters its loop (an aborted task is not polled)
StartMainLoop ==
    /\ Idle
    /\ process = "running"
    /\ op' = "main"
    /\ pc' = "tick"
    /\ ret' = NoReturn
    /\ UNCHANGED <<now, config, metricsVars,
                   reconnectVars, feedVars, storeVars, stats, is_running,
                   validation_enabled, stop_requested, phase, snap, wait, last,
                   emitted, metrics>>

\* ArbitrageDetector::start_detection up to the loop
StartDetection ==
    /\ Idle
    /\ is_running' = TRUE
    /\ op' = "start_detection"
    /\ pc' = "tick"
    /\ ret' = NoReturn
    /\ UNCHANGED <<now, config, metricsVars, reconnectVars, feedVars, storeVars, stats,
                   validation_enabled,
                   stop_requested, phase, snap, wait, last, emitted, metrics>>

\* ArbitrageDetector::wait_for_opportunity(timeout) up to the loop
WaitForOpportunity ==
    /\ Idle
    /\ \E timeout \in 0..MaxTimeout : wait' = [start |-> now, timeout |-> timeout]
    /\ op' = "wait_for_opportunity"
    /\ pc' = "tick"
    /\ ret' = NoReturn
    /\ UNCHANGED <<now, config, metricsVars,
                   reconnectVars, feedVars, storeVars, stats, is_running,
                   validation_enabled, stop_requested, phase, snap, last, emitted,
                   metrics>>

\* ArbitrageDetector::stop_detection
StopDetection ==
    /\ Idle
    /\ is_running' = FALSE
    /\ stop_requested' = TRUE
    /\ UNCHANGED <<now, config, metricsVars, reconnectVars, feedVars, storeVars, stats,
                   validation_enabled,
                   op, pc, phase, snap, wait, last, emitted, ret, metrics>>

\* ArbitrageDetector::reset_stats
ResetStats ==
    /\ Idle
    /\ stats' = DetectionStatsDefault
    /\ UNCHANGED <<now, config, metricsVars,
                   reconnectVars, feedVars, storeVars, is_running,
                   validation_enabled, stop_requested, op, pc, phase, snap, wait, last,
                   emitted, ret, metrics>>

\* the counters of the model are kept within their bounds
WithinBounds ==
    /\ stats.total_checks < MaxChecks
    /\ metrics.processing_errors < MaxErrors

\* the head of a loop: the loop condition, then the await of the interval; the
\* tick that follows begins with check_for_opportunities
LoopHead ==
    /\ pc = "tick"
    /\ CASE op = "main" ->
              /\ process = "running"
              /\ WithinBounds
              /\ pc' = "lock_solana"
              /\ UNCHANGED <<op, is_running, ret, wait>>
         [] op = "start_detection" ->
              IF ~is_running
              THEN /\ op' = "none"
                   /\ pc' = "idle"
                   /\ ret' = [NoReturn EXCEPT !.kind = "OkUnit"]
                   /\ UNCHANGED <<is_running, wait>>
              ELSE /\ WithinBounds
                   /\ pc' = "lock_solana"
                   /\ UNCHANGED <<op, is_running, ret, wait>>
         [] op = "wait_for_opportunity" ->
              IF now - wait.start < wait.timeout
              THEN /\ WithinBounds
                   /\ pc' = "lock_solana"
                   /\ UNCHANGED <<op, is_running, ret, wait>>
              ELSE /\ op' = "none"
                   /\ pc' = "idle"
                   /\ ret' = [NoReturn EXCEPT !.kind = "DetectionTimeout"]
                   /\ wait' = NoWait
                   /\ UNCHANGED is_running
    /\ phase' = "check"
    /\ last' = IF pc' = "lock_solana" THEN NoResult ELSE last
    /\ emitted' = IF pc' = "lock_solana" THEN NoOutput ELSE emitted
    /\ UNCHANGED <<now, config, metricsVars, reconnectVars, feedVars, storeVars, stats,
                   validation_enabled,
                   stop_requested, snap, metrics>>

----------------------------------------------------------------------------
(* The match arms that follow check_for_opportunities *)

\* main.rs, the detection loop: set_queue_depth(0), then every Ok(Some(..)) is
\* recorded and printed, every Err(..) is recorded as a processing error and printed
MainArm(result, checked) ==
    /\ stats' = checked
    /\ last' = result
    /\ IF result.kind = "Ok" /\ result.opp # NoOpportunity
       THEN /\ metrics' = record_opportunity(set_queue_depth(metrics, 0))
            /\ emitted' = OutputOpportunity(result.opp)
       ELSE IF result.kind = "Ok"
       THEN /\ metrics' = set_queue_depth(metrics, 0)
            /\ emitted' = IF checked.total_checks % 60 = 0
                          THEN OutputNoOpportunities ELSE NoOutput
       ELSE /\ metrics' = record_error(set_queue_depth(metrics, 0))
            /\ emitted' = OutputError
    /\ pc' = "tick"
    /\ phase' = "check"
    /\ UNCHANGED <<op, is_running, wait, ret>>

\* start_detection: Ok(Some(..)) is counted and handed to the callback when it meets
\* the threshold; Ok(None) reads the prices a second time; an error is followed by a
\* sleep (100 ms after NoFreshData, 1000 ms otherwise) and the next iteration
StartDetectionArm(result, checked) ==
    /\ last' = result
    /\ IF result.kind = "Ok" /\ result.opp # NoOpportunity
       THEN LET meets_threshold == exceeds_threshold(result.opp, config.threshold)
            IN  /\ stats' = update_opportunity(checked, result.opp, meets_threshold)
                /\ emitted' = IF meets_threshold
                              THEN OutputOpportunity(result.opp) ELSE NoOutput
                /\ pc' = "tick"
                /\ phase' = "check"
       ELSE IF result.kind = "Ok"
       THEN /\ stats' = checked
            /\ emitted' = NoOutput
            /\ pc' = "lock_solana"
            /\ phase' = "recheck"
       ELSE /\ stats' = checked
            /\ emitted' = NoOutput
            /\ pc' = "tick"
            /\ phase' = "check"
    /\ UNCHANGED <<op, is_running, wait, ret, metrics>>

\* wait_for_opportunity: `?` returns the error of check_for_opportunities; an
\* opportunity that meets the threshold is returned; anything else polls again
WaitArm(result, checked) ==
    /\ stats' = checked
    /\ last' = result
    /\ IF result.kind = "Err"
       THEN /\ ret' = [kind |-> "Err", opp |-> NoOpportunity, error |-> result.error]
            /\ op' = "none"
            /\ pc' = "idle"
            /\ wait' = NoWait
       ELSE IF result.opp # NoOpportunity
               /\ exceeds_threshold(result.opp, config.threshold)
       THEN /\ ret' = [kind |-> "Ok", opp |-> result.opp, error |-> ResultOk]
            /\ op' = "none"
            /\ pc' = "idle"
            /\ wait' = NoWait
       ELSE /\ pc' = "tick"
            /\ UNCHANGED <<ret, op, wait>>
    /\ phase' = "check"
    /\ UNCHANGED <<is_running, emitted, metrics>>

\* start_detection, the Ok(None) arm: a second get_validated_prices, counted as
\* another check when it succeeds
RecheckArm(validated) ==
    /\ stats' = IF validated.kind = "Ok" THEN update_check(stats) ELSE stats
    /\ pc' = "tick"
    /\ phase' = "check"
    /\ UNCHANGED <<op, is_running, wait, ret, metrics, last, emitted>>

\* what follows the return of get_both_prices: the rest of get_validated_prices
\* and of check_for_opportunities, then the arm of the operation in progress
Complete(both) ==
    LET validated == get_validated_prices(both, config.max_price_age_ms,
                                          validation_enabled, now)
        result == CheckResult(validated, both)
        checked == CheckStats(stats, validated)
    IN  CASE phase = "recheck" -> RecheckArm(validated)
          [] phase = "check" /\ op = "main" -> MainArm(result, checked)
          [] phase = "check" /\ op = "start_detection" ->
                StartDetectionArm(result, checked)
          [] phase = "check" /\ op = "wait_for_opportunity" ->
                WaitArm(result, checked)

----------------------------------------------------------------------------
(* PriceCache::get_both_prices, one step per statement *)

\* let solana_lock = self.solana_price.read().ok()?;
LockSolana ==
    /\ pc = "lock_solana"
    /\ read_locks' = [read_locks EXCEPT !.solana_price = @ + 1]
    /\ pc' = "lock_binance"
    /\ UNCHANGED <<now, config, metricsVars,
                   reconnectVars, feedVars, price_cache, cleanup_pc,
                   last_pushed,
                   stats, is_running, validation_enabled, stop_requested, op, phase,
                   snap, wait, last, emitted, ret, metrics>>

\* let binance_lock = self.binance_price.read().ok()?;
LockBinance ==
    /\ pc = "lock_binance"
    /\ read_locks' = [read_locks EXCEPT !.binance_price = @ + 1]
    /\ pc' = "clone_solana"
    /\ UNCHANGED <<now, config, metricsVars,
                   reconnectVars, feedVars, price_cache, cleanup_pc,
                   last_pushed,
                   stats, is_running, validation_enabled, stop_requested, op, phase,
                   snap, wait, last, emitted, ret, metrics>>

\* the Solana slot cloned and its read guard dropped before the Binance slot is read
CloneSolanaDropGuard ==
    /\ pc = "clone_solana"
    /\ IF price_cache.solana_price = None
       THEN /\ read_locks' = DropGuards(read_locks)
            /\ snap' = NoPair
            /\ Complete(NoPair)
       ELSE /\ snap' = [snap EXCEPT !.solana_price = price_cache.solana_price]
            /\ read_locks' = [read_locks EXCEPT !.solana_price = 0]
            /\ pc' = "clone_binance"
            /\ UNCHANGED <<stats, is_running, op, phase, wait, last, emitted, ret,
                           metrics>>
    /\ UNCHANGED <<now, config, metricsVars,
                   reconnectVars, feedVars, price_cache, cleanup_pc,
                   last_pushed,
                   validation_enabled, stop_requested>>

\* let solana = solana_lock.clone()?;  (None returns None, both guards dropped)
CloneSolana ==
    /\ pc = "clone_solana"
    /\ IF price_cache.solana_price = None
       THEN /\ read_locks' = DropGuards(read_locks)
            /\ snap' = NoPair
            /\ Complete(NoPair)
       ELSE /\ snap' = [snap EXCEPT !.solana_price = price_cache.solana_price]
            /\ pc' = "clone_binance"
            /\ UNCHANGED <<read_locks, stats, is_running, op, phase, wait, last,
                           emitted, ret, metrics>>
    /\ UNCHANGED <<now, config, metricsVars,
                   reconnectVars, feedVars, price_cache, cleanup_pc,
                   last_pushed,
                   validation_enabled, stop_requested>>

\* let binance = binance_lock.clone()?;  (None returns None, both guards dropped)
CloneBinance ==
    /\ pc = "clone_binance"
    /\ IF price_cache.binance_price = None
       THEN /\ read_locks' = DropGuards(read_locks)
            /\ snap' = NoPair
            /\ Complete(NoPair)
       ELSE /\ snap' = [snap EXCEPT !.binance_price = price_cache.binance_price]
            /\ pc' = "return_pair"
            /\ UNCHANGED <<read_locks, stats, is_running, op, phase, wait, last,
                           emitted, ret, metrics>>
    /\ UNCHANGED <<now, config, metricsVars,
                   reconnectVars, feedVars, price_cache, cleanup_pc,
                   last_pushed,
                   validation_enabled, stop_requested>>

\* Some((solana, binance)): both guards are dropped and the caller goes on
ReturnPair ==
    /\ pc = "return_pair"
    /\ read_locks' = DropGuards(read_locks)
    /\ snap' = NoPair
    /\ Complete(snap)
    /\ UNCHANGED <<now, config, metricsVars,
                   reconnectVars, feedVars, price_cache, cleanup_pc,
                   last_pushed,
                   validation_enabled, stop_requested>>

----------------------------------------------------------------------------
(* websocket/reconnect.rs.  A Duration is a number of microseconds; the clock of  *)
(* Instant::now is `now`, and max_total_duration is in its units.                *)

\* Option::None of max_attempts and of max_total_duration
NoLimit == -1
\* Option::None of start_time
NoInstant == -1

\* Duration::as_millis and Duration::from_millis
as_millis(d) == d \div 1000
from_millis(ms) == ms * 1000

\* backoff_multiplier is in hundredths (200 is 2.0)
MkReconnectConfig(initial_delay, max_delay, multiplier, attempts, duration, jitter) ==
    [initial_delay |-> initial_delay,
     max_delay |-> max_delay,
     backoff_multiplier |-> multiplier,
     max_attempts |-> attempts,
     max_total_duration |-> duration,
     jitter |-> jitter]

\* ReconnectConfig::default: 1 s, 60 s, 2.0, 10 attempts, 300 s, jitter
ReconnectConfigDefault ==
    MkReconnectConfig(from_millis(1000), from_millis(60 * 1000), 200, 10, 60, TRUE)

\* ReconnectConfig::validate
validate(c) ==
    /\ c.initial_delay # 0
    /\ c.max_delay >= c.initial_delay
    /\ c.backoff_multiplier > 100
    /\ c.max_attempts # 0

\* ReconnectHandler::new, for a configuration that validates
ReconnectHandlerNew(c) ==
    [config |-> c,
     attempt_count |-> 0,
     start_time |-> NoInstant,
     current_delay |-> c.initial_delay]

\* a reset that leaves current_delay as it is
ResetKeepDelay(h) ==
    [h EXCEPT !.attempt_count = 0, !.start_time = NoInstant]

\* ReconnectHandler::reset
reset(h) ==
    [h EXCEPT !.attempt_count = 0,
              !.start_time = NoInstant,
              !.current_delay = h.config.initial_delay]

\* ReconnectHandler::add_jitter; hash is the DefaultHasher value of attempt_count,
\* and the cast of the product to i64 truncates towards zero
add_jitter(delay, hash) ==
    LET percent == (hash % 20) - 10
        delay_ms == as_millis(delay)
        jitter_ms == IF percent >= 0
                     THEN (delay_ms * percent) \div 100
                     ELSE 0 - ((delay_ms * (0 - percent)) \div 100)
        jittered_ms == IF delay_ms + jitter_ms > 0 THEN delay_ms + jitter_ms ELSE 0
    IN  from_millis(jittered_ms)

\* ReconnectHandler::calculate_delay
calculate_delay(h, hash) ==
    IF h.config.jitter THEN add_jitter(h.current_delay, hash) ELSE h.current_delay

\* ReconnectHandler::update_delay
update_delay(h) ==
    LET next_delay_ms ==
            (as_millis(h.current_delay) * h.config.backoff_multiplier) \div 100
        next_delay == from_millis(next_delay_ms)
    IN  [h EXCEPT !.current_delay = IF next_delay < h.config.max_delay
                                    THEN next_delay ELSE h.config.max_delay]

\* Result<Duration, ReconnectError>
ReconnectOk(delay) == [kind |-> "Ok", delay |-> delay]
MaxAttemptsExceeded == [kind |-> "MaxAttemptsExceeded", delay |-> 0]
ConnectionTimeout == [kind |-> "ConnectionTimeout", delay |-> 0]

\* should_reconnect looking at the total duration before the attempts
ShouldReconnectTimeoutFirst(h, t, hash) ==
    LET started == IF h.start_time = NoInstant THEN [h EXCEPT !.start_time = t] ELSE h
        cfg == h.config
    IN  IF cfg.max_total_duration # NoLimit
           /\ t - started.start_time >= cfg.max_total_duration
        THEN [handler |-> started, result |-> ConnectionTimeout]
        ELSE IF cfg.max_attempts # NoLimit /\ started.attempt_count >= cfg.max_attempts
        THEN [handler |-> started, result |-> MaxAttemptsExceeded]
        ELSE LET counted == [started EXCEPT !.attempt_count = @ + 1]
             IN  [handler |-> update_delay(counted),
                  result |-> ReconnectOk(calculate_delay(counted, hash))]

\* should_reconnect allowing one attempt more than max_attempts
ShouldReconnectOneMore(h, t, hash) ==
    LET started == IF h.start_time = NoInstant THEN [h EXCEPT !.start_time = t] ELSE h
        cfg == h.config
    IN  IF cfg.max_attempts # NoLimit /\ started.attempt_count > cfg.max_attempts
        THEN [handler |-> started, result |-> MaxAttemptsExceeded]
        ELSE IF cfg.max_total_duration # NoLimit
                /\ t - started.start_time >= cfg.max_total_duration
        THEN [handler |-> started, result |-> ConnectionTimeout]
        ELSE LET counted == [started EXCEPT !.attempt_count = @ + 1]
             IN  [handler |-> update_delay(counted),
                  result |-> ReconnectOk(calculate_delay(counted, hash))]

\* ReconnectHandler::should_reconnect at time t: the handler afterwards and the
\* result
should_reconnect(h, t, hash) ==
    LET started == IF h.start_time = NoInstant THEN [h EXCEPT !.start_time = t] ELSE h
        cfg == h.config
    IN  IF cfg.max_attempts # NoLimit /\ started.attempt_count >= cfg.max_attempts
        THEN [handler |-> started, result |-> MaxAttemptsExceeded]
        ELSE IF cfg.max_total_duration # NoLimit
                /\ t - started.start_time >= cfg.max_total_duration
        THEN [handler |-> started, result |-> ConnectionTimeout]
        ELSE LET counted == [started EXCEPT !.attempt_count = @ + 1]
             IN  [handler |-> update_delay(counted),
                  result |-> ReconnectOk(calculate_delay(counted, hash))]

\* the latest result, with the current_delay it was computed from (base), the base
\* of the successful call before it (prev) and the numbers of calls and of
\* successful calls since construction or reset; after is the result that a reset
\* wiped ("None" when the handler was never reset or was reset unused)
NoReturned ==
    [kind |-> "None", delay |-> 0, base |-> 0, prev |-> 0, calls |-> 0, oks |-> 0,
     after |-> "None"]

\* the values hash % 20 can take
Hashes == 0..19

\* a caller asks the handler whether to reconnect
ShouldReconnect ==
    /\ returned.calls < MaxCalls
    /\ \E hash \in Hashes :
          LET r == should_reconnect(handler, now, hash)
          IN  /\ handler' = r.handler
              /\ returned' =
                    [kind |-> r.result.kind,
                     delay |-> r.result.delay,
                     base |-> IF r.result.kind = "Ok"
                              THEN handler.current_delay ELSE returned.base,
                     prev |-> IF r.result.kind = "Ok"
                              THEN returned.base ELSE returned.prev,
                     calls |-> returned.calls + 1,
                     oks |-> IF r.result.kind = "Ok"
                             THEN returned.oks + 1 ELSE returned.oks,
                     after |-> returned.after]
    /\ UNCHANGED <<now, config, metricsVars, storeVars, detectorVars, feedVars>>

\* a caller resets the handler after a successful connection
ResetHandler ==
    /\ handler' = reset(handler)
    /\ returned' = [NoReturned EXCEPT !.after = returned.kind]
    /\ UNCHANGED <<now, config, metricsVars, storeVars, detectorVars, feedVars>>

\* the handlers of the feeds before any reconnection
ReconnectInit ==
    /\ handler = ReconnectHandlerNew(ReconnectConfigDefault)
    /\ returned = NoReturned

----------------------------------------------------------------------------
(* websocket/solana.rs: decoding of an account notification.  A blob is its      *)
(* length and the u64 values at the byte offsets the decoders read; the two      *)
(* reserve amounts are counted in units of 10^12, the other words are raw.       *)

\* size of the borsh encoding of RaydiumPoolState: 35 u64, 13 keys of 32 bytes and
\* 7 bytes of padding
PoolStateSize == 703
\* byte offsets of the fields of RaydiumPoolState
StatusOffset == 0
BaseDecimalsOffset == 32
QuoteDecimalsOffset == 40
StateOffset == 48
PoolBaseOffset == 224
PoolQuoteOffset == 232
\* extract_price_from_raw_data: minimal length, offsets read, decimals assumed
MinRawLen == 400
base_amount_offset == 232
quote_amount_offset == 240
SolDecimals == 9
QuoteDecimals == 6
\* the sanity bounds 10.0 and 1000.0 of extract_price_from_raw_data, in tenths
MinRawPrice == 100
MaxRawPrice == 10000

DecodeOk(price) == [ok |-> TRUE, price |-> price, error |-> "None"]
DecodeErr(error) == [ok |-> FALSE, price |-> 0, error |-> error]

RECURSIVE Pow10(_)
Pow10(n) == IF n = 0 THEN 1 ELSE 10 * Pow10(n - 1)

\* (quote / 10^quote_decimals) / (base / 10^base_decimals) in tenths, for amounts
\* in the same unit and base_decimals + 1 >= quote_decimals
PriceOfReserves(base, quote, base_decimals, quote_decimals) ==
    (quote * Pow10(base_decimals - quote_decimals + 1)) \div base

\* RaydiumPoolState::try_from_slice: the fields, when the length is the size of the
\* encoding exactly
PoolStateOf(blob) ==
    [status |-> blob.word[StatusOffset],
     state |-> blob.word[StateOffset],
     base_decimals |-> blob.word[BaseDecimalsOffset],
     quote_decimals |-> blob.word[QuoteDecimalsOffset],
     pool_base_token_amount |-> blob.word[PoolBaseOffset],
     pool_quote_token_amount |-> blob.word[PoolQuoteOffset]]

\* RaydiumPoolState::is_active
is_active(pool_state) == pool_state.status = 6 /\ pool_state.state = 1

\* RaydiumPoolState::calculate_price
calculate_price(pool_state) ==
    IF pool_state.pool_base_token_amount = 0
    THEN DecodeErr("PoolParsingError")
    ELSE DecodeOk(PriceOfReserves(pool_state.pool_base_token_amount,
                                  pool_state.pool_quote_token_amount,
                                  pool_state.base_decimals,
                                  pool_state.quote_decimals))

\* the fallback reading the reserves where the strict layout has them
ExtractRawAtLayoutOffsets(blob) ==
    IF blob.len < MinRawLen \/ blob.word[PoolBaseOffset] = 0
    THEN DecodeErr("PoolParsingError")
    ELSE LET price == PriceOfReserves(blob.word[PoolBaseOffset],
                                      blob.word[PoolQuoteOffset],
                                      SolDecimals, QuoteDecimals)
         IN  IF price < MinRawPrice \/ price > MaxRawPrice
             THEN DecodeErr("PoolParsingError")
             ELSE DecodeOk(price)

\* SolanaClient::extract_price_from_raw_data
extract_price_from_raw_data(blob) ==
    IF blob.len < MinRawLen
    THEN DecodeErr("PoolParsingError")
    ELSE LET base_amount == blob.word[base_amount_offset]
             quote_amount == blob.word[quote_amount_offset]
         IN  IF base_amount = 0
             THEN DecodeErr("PoolParsingError")
             ELSE LET price == PriceOfReserves(base_amount, quote_amount,
                                               SolDecimals, QuoteDecimals)
                  IN  IF price < MinRawPrice \/ price > MaxRawPrice
                      THEN DecodeErr("PoolParsingError")
                      ELSE DecodeOk(price)

\* SolanaClient::extract_price_from_account_data on a notification
extract_price_from_account_data(text) ==
    IF text.form = "NoData"
    THEN DecodeErr("InvalidAccountData")
    ELSE IF text.form = "BadBase64"
    THEN DecodeErr("PoolParsingError")
    ELSE IF text.blob.len # PoolStateSize
    THEN extract_price_from_raw_data(text.blob)
    ELSE IF ~is_active(PoolStateOf(text.blob))
    THEN DecodeErr("PoolParsingError")
    ELSE calculate_price(PoolStateOf(text.blob))

\* SolanaClient::parse_account_message: only a text of the form NoData, BadBase64
\* or Blob deserializes as an AccountNotification
parse_account_message(text) ==
    IF text.form \in {"NoData", "BadBase64", "Blob"}
    THEN extract_price_from_account_data(text)
    ELSE DecodeErr("InvalidAccountData")

\* str::parse::<f64> on the price strings of the model
parse_f64(c) ==
    CASE c = "195.0" -> DecodeOk(1950)
      [] c = "195.1" -> DecodeOk(1951)
      [] c = "-1.0" -> DecodeOk(-10)
      [] c = "NaN" -> DecodeOk(NaN)
      [] OTHER -> DecodeErr("JsonError")

\* BinanceClient::parse_ticker_message
parse_ticker_message(text) ==
    IF text.form # "Ticker" THEN DecodeErr("JsonError") ELSE parse_f64(text.c)

\* the blobs of the model
NoBlob == [len |-> 0, word |-> [o \in {} |-> 0]]
BlobLens == {399, MinRawLen, PoolStateSize}
PoolFlags == {<<6, 1>>, <<0, 1>>, <<6, 0>>}
BaseAmounts == {0, 1000}
MiddleAmounts == {0, 1000, 5000}
QuoteAmounts == {200, 5, 2000}
MkBlob(len, flags, w224, w232, w240) ==
    [len |-> len,
     word |-> (StatusOffset :> flags[1]) @@ (StateOffset :> flags[2])
              @@ (BaseDecimalsOffset :> SolDecimals)
              @@ (QuoteDecimalsOffset :> QuoteDecimals)
              @@ (PoolBaseOffset :> w224) @@ (PoolQuoteOffset :> w232)
              @@ (quote_amount_offset :> w240)]
Blobs ==
    {MkBlob(len, flags, w224, w232, w240) :
        len \in BlobLens, flags \in PoolFlags, w224 \in BaseAmounts,
        w232 \in MiddleAmounts, w240 \in QuoteAmounts}

\* the text frames of the model
NoText == [form |-> "None", c |-> "", blob |-> NoBlob]
MkText(form, c, blob) == [form |-> form, c |-> c, blob |-> blob]
SolanaTexts ==
    {MkText(form, "", NoBlob) : form \in {"Garbage", "Ack", "NoData", "BadBase64"}}
    \cup {MkText("Blob", "", blob) : blob \in Blobs}
BinanceTexts ==
    {MkText("Garbage", "", NoBlob)}
    \cup {MkText("Ticker", c, NoBlob) : c \in {"195.0", "195.1", "-1.0", "NaN", "abc"}}
Texts(source) == IF source = "Solana" THEN SolanaTexts ELSE BinanceTexts

\* parse_account_message or parse_ticker_message, by the feed
ParseText(source, text) ==
    IF source = "Solana" THEN parse_account_message(text) ELSE parse_ticker_message(text)

----------------------------------------------------------------------------
(* websocket/solana.rs and websocket/binance.rs: the client and its start loop,  *)
(* a step per await.                                                            *)

NoSession == -1

\* failed_attempts once a connection attempt has succeeded
NoCount == -1

\* the client right after construction, about to run start; failed_attempts is
\* history: the connection attempts made so far when all of them have failed
FeedClient(source, providers) ==
    [source |-> source,
     providers |-> providers,
     current_provider_index |-> 0,
     pc |-> "connect",
     result |-> "None",
     session |-> NoSession,
     event |-> "None",
     recovery |-> "None",
     frame |-> NoText,
     failed_attempts |-> 0]

\* SolanaClient::new with that many rpc_providers
SolanaClientNew(providers) ==
    IF providers = 0
    THEN [FeedClient("Solana", 0) EXCEPT !.pc = "unbuilt",
                                         !.result = "NoProvidersAvailable"]
    ELSE FeedClient("Solana", providers)

\* BinanceClient::new
BinanceClientNew == FeedClient("Binance", 1)

\* try_next_provider incrementing whatever the index
TryNextUnchecked(f) ==
    [switched |-> TRUE,
     feed |-> [f EXCEPT !.current_provider_index = @ + 1]]

\* SolanaClient::try_next_provider
try_next_provider(f) ==
    IF f.current_provider_index + 1 < f.providers
    THEN [switched |-> TRUE, feed |-> [f EXCEPT !.current_provider_index = @ + 1]]
    ELSE [switched |-> FALSE, feed |-> f]

\* what should_reconnect returned, added to the record of the calls
Recorded(rec, result, base) ==
    [kind |-> result.kind,
     delay |-> result.delay,
     base |-> IF result.kind = "Ok" THEN base ELSE rec.base,
     prev |-> IF result.kind = "Ok" THEN rec.base ELSE rec.prev,
     calls |-> rec.calls + 1,
     oks |-> IF result.kind = "Ok" THEN rec.oks + 1 ELSE rec.oks,
     after |-> rec.after]

\* the Err arm of BinanceClient::start, and what is left of the Err arm of
\* SolanaClient::start when there is no next provider
ConsultPolicy(f, h, rec, t, hash) ==
    LET r == should_reconnect(h, t, hash)
    IN  [feed |-> IF r.result.kind = "Ok"
                  THEN [f EXCEPT !.pc = "sleep", !.recovery = "Backoff"]
                  ELSE [f EXCEPT !.pc = "done", !.result = "ReconnectFailed",
                                 !.recovery = "GaveUp"],
         handler |-> r.handler,
         returned |-> Recorded(rec, r.result, h.current_delay)]

\* the Err arm of SolanaClient::start without the failover
StartOnErrorNoFailover(f, h, rec, t, hash) == ConsultPolicy(f, h, rec, t, hash)

\* the Err arm of SolanaClient::start and of BinanceClient::start, up to the sleep,
\* the next connect or the return
StartOnError(f, h, rec, t, hash) ==
    IF f.source = "Solana" /\ try_next_provider(f).switched
    THEN [feed |-> [try_next_provider(f).feed EXCEPT !.pc = "connect",
                                                     !.recovery = "Failover"],
          handler |-> h,
          returned |-> rec]
    ELSE ConsultPolicy(f, h, rec, t, hash)

\* the feed task can still be polled: it was not dropped by an abort of its handle
\* nor with the runtime
FeedRunning == feed.pc # "aborted" /\ process # "stopped"

\* a failure of connect_and_stream with that event, handled by start
FeedFailure(event) ==
    /\ returned.calls < MaxCalls
    /\ \E hash \in Hashes :
          LET closed == [feed EXCEPT !.session = NoSession, !.event = event,
                                     !.frame = NoText,
                                     !.failed_attempts =
                                         IF event = "ConnectFailed" /\ @ # NoCount
                                         THEN @ + 1 ELSE @]
              r == StartOnError(closed, handler, returned, now, hash)
          IN  /\ feed' = r.feed
              /\ handler' = r.handler
              /\ returned' = r.returned
    /\ UNCHANGED <<now, config, metricsVars, storeVars, detectorVars, process>>

\* connect_and_stream: the connection times out or fails, or the subscribe
\* message cannot be sent
ConnectFailed ==
    /\ FeedRunning
    /\ feed.pc = "connect"
    /\ FeedFailure("ConnectFailed")

\* connect_and_stream: connected to the current provider and subscribed
Connected ==
    /\ FeedRunning
    /\ feed.pc = "connect"
    /\ feed' = [feed EXCEPT !.pc = "stream",
                            !.session = feed.current_provider_index,
                            !.event = "Connected",
                            !.recovery = "None",
                            !.frame = NoText,
                            !.failed_attempts = NoCount]
    /\ UNCHANGED <<now, config, metricsVars,
                   storeVars, detectorVars, reconnectVars, process>>

\* connect_and_stream: a text frame; the callback of start_with_handles pushes the
\* update it parses to, a text that does not parse is skipped
StreamText(text) ==
    /\ FeedRunning
    /\ feed.pc = "stream"
    /\ CanWrite(feed.source)
    /\ LET parsed == ParseText(feed.source, text)
           update == PriceUpdateNew(feed.source, config.pair, parsed.price, now)
       IN  IF parsed.ok
           THEN /\ price_cache' = CacheUpdate(price_cache, update)
                /\ last_pushed' = [last_pushed EXCEPT ![feed.source] = update]
                /\ feed' = [feed EXCEPT !.event = "Update", !.recovery = "None",
                                        !.frame = text]
           ELSE /\ UNCHANGED <<price_cache, last_pushed>>
                /\ feed' = [feed EXCEPT !.event = "Dropped", !.recovery = "None",
                                        !.frame = text]
    /\ UNCHANGED <<now, config, metricsVars, read_locks, cleanup_pc>>
    /\ UNCHANGED <<detectorVars, reconnectVars, process>>

\* connect_and_stream: a ping answered with a pong, or a frame of another kind
StreamOther ==
    /\ FeedRunning
    /\ feed.pc = "stream"
    /\ \E event \in {"Ping", "Other"} :
          feed' = [feed EXCEPT !.event = event, !.recovery = "None",
                               !.frame = NoText]
    /\ UNCHANGED <<now, config, metricsVars,
                   storeVars, detectorVars, reconnectVars, process>>

\* connect_and_stream: a close frame or the end of the stream; connect_and_stream
\* returns Ok(()), start resets the handler, leaves its loop and returns Ok(())
StreamClosed ==
    /\ FeedRunning
    /\ feed.pc = "stream"
    /\ \E event \in {"Close", "StreamEnd"} :
          feed' = [feed EXCEPT !.pc = "done", !.result = "Ok",
                               !.session = NoSession, !.event = event,
                               !.recovery = "None", !.frame = NoText]
    /\ handler' = reset(handler)
    /\ returned' = [NoReturned EXCEPT !.after = returned.kind]
    /\ UNCHANGED <<now, config, metricsVars, storeVars, detectorVars, process>>

\* connect_and_stream: reading a frame fails, or the pong cannot be sent
StreamError ==
    /\ FeedRunning
    /\ feed.pc = "stream"
    /\ \E event \in {"IoError", "PongFailed"} : FeedFailure(event)

\* start: the backoff sleep is over; SolanaClient::start goes back to the first
\* provider
SleepDone ==
    /\ FeedRunning
    /\ feed.pc = "sleep"
    /\ feed' = [feed EXCEPT !.pc = "connect",
                            !.current_provider_index =
                                IF feed.source = "Solana" THEN 0 ELSE @,
                            !.event = "Slept",
                            !.recovery = "None"]
    /\ UNCHANGED <<now, config, metricsVars,
                   storeVars, detectorVars, reconnectVars, process>>

\* a feed task woken by the abort of its handle like by the end of its sleep
AbortWakesSleeper(f) ==
    IF f.pc = "sleep" THEN [f EXCEPT !.event = "Aborted"]
    ELSE IF f.pc \in {"done", "unbuilt"} THEN f
    ELSE [f EXCEPT !.pc = "aborted", !.session = NoSession, !.event = "Aborted",
                   !.frame = NoText]

\* JoinHandle::abort on a feed task: a task that has returned is left as it is, a
\* task suspended in connect, in the stream or in the backoff sleep is dropped
\* there with its session. `recovery` keeps what the task was recovering from
abort(f) ==
    IF f.pc \in {"done", "unbuilt"}
    THEN f
    ELSE [f EXCEPT !.pc = "aborted", !.session = NoSession, !.event = "Aborted",
                   !.frame = NoText]

\* the detection task of main is suspended at an await (or was never polled)
DetectionAtAwait == pc \in {"idle", "tick"}

\* main: the shutdown signal arrives and detection_handle, binance_handle and
\* solana_handle are aborted. abort() is a request: a task suspended at an await is
\* dropped there, a task in the middle of a poll goes on to its next await
CtrlC ==
    /\ process = "running"
    /\ process' = "shutdown"
    /\ feed' = abort(feed)
    /\ UNCHANGED <<now, config, metricsVars, storeVars, detectorVars, reconnectVars>>

\* main: the 500 ms of grace, then Ok(()): the runtime is dropped once its workers
\* have finished the poll they are in
MainReturn ==
    /\ process = "shutdown"
    /\ DetectionAtAwait
    /\ process' = "stopped"
    /\ UNCHANGED <<now, config, metricsVars,
                   storeVars, detectorVars, reconnectVars, feed>>

----------------------------------------------------------------------------
(* performance/metrics.rs: calls on the shared MetricsCollector *)

\* the threads that call set_queue_depth on the collector
Threads == 1..MaxThreads

\* the depths of test_queue_depth_tracking
QueueDepths == {5, 10, 3}

NoCall == [pc |-> "idle", depth |-> 0, current_max |-> 0]

NonePassed == [last |-> 0, largest |-> 0]

\* set_queue_depth(depth) on thread t: self.current_queue_depth.store(depth)
SetQueueDepthStore(t, depth) ==
    /\ in_flight[t].pc = "idle"
    /\ metrics' = StoreDepth(metrics, depth)
    /\ in_flight' = [in_flight EXCEPT ![t] = [NoCall EXCEPT !.pc = "load_max",
                                                            !.depth = depth]]
    /\ passed' = [last |-> depth,
                  largest |-> IF depth > passed.largest THEN depth ELSE passed.largest]
    /\ UNCHANGED <<now, config, storeVars, reconnectVars, feedVars, performance>>
    /\ UNCHANGED <<stats, is_running, validation_enabled, stop_requested, op, pc,
                   phase, snap, wait, last, emitted, ret>>

\* let current_max = self.max_queue_depth.load(Ordering::Relaxed);
SetQueueDepthLoadMax(t) ==
    /\ in_flight[t].pc = "load_max"
    /\ in_flight' = [in_flight EXCEPT ![t].pc = "store_max",
                                      ![t].current_max = metrics.max_queue_depth]
    /\ UNCHANGED <<now, config, storeVars, reconnectVars, feedVars, detectorVars,
                   passed, performance>>

\* if depth > current_max { self.max_queue_depth.store(depth, ..) } and the return
SetQueueDepthStoreMax(t) ==
    /\ in_flight[t].pc = "store_max"
    /\ metrics' = StoreMaxIfAbove(metrics, in_flight[t].depth,
                                  in_flight[t].current_max)
    /\ in_flight' = [in_flight EXCEPT ![t] = NoCall]
    /\ UNCHANGED <<now, config, storeVars, reconnectVars, feedVars, passed,
                   performance>>
    /\ UNCHANGED <<stats, is_running, validation_enabled, stop_requested, op, pc,
                   phase, snap, wait, last, emitted, ret>>

\* another call on the collector that changes its counters only
CollectorCall(after) ==
    /\ metrics' = after
    /\ UNCHANGED <<now, config, storeVars, reconnectVars, feedVars, metricsVars>>
    /\ UNCHANGED <<stats, is_running, validation_enabled, stop_requested, op, pc,
                   phase, snap, wait, last, emitted, ret>>

RecordSolanaMessage ==
    /\ metrics.solana_messages < MaxMessages
    /\ CollectorCall(record_solana_message(metrics))

RecordBinanceMessage ==
    /\ metrics.binance_messages < MaxMessages
    /\ CollectorCall(record_binance_message(metrics))

RecordError ==
    /\ metrics.processing_errors < MaxErrors
    /\ CollectorCall(record_error(metrics))

\* MetricsCollector::get_metrics
GetMetrics ==
    /\ performance' \in get_metrics(metrics)
    /\ UNCHANGED <<now, config, storeVars, reconnectVars, feedVars, detectorVars,
                   in_flight, passed>>

\* MetricsCollector::reset between the calls of set_queue_depth
ResetMetrics ==
    /\ \A t \in Threads : in_flight[t].pc = "idle"
    /\ metrics' = MetricsReset(metrics)
    /\ passed' = NonePassed
    /\ UNCHANGED <<now, config, storeVars, reconnectVars, feedVars, in_flight,
                   performance>>
    /\ UNCHANGED <<stats, is_running, validation_enabled, stop_requested, op, pc,
                   phase, snap, wait, last, emitted, ret>>

\* the feeds of main before they connect
FeedInit ==
    /\ feed = SolanaClientNew(2)
    /\ process = "running"

----------------------------------------------------------------------------
(* Specifications *)

\* the default configuration with each threshold of the model
RunConfigs ==
    ConfigNew(Thresholds, {<<DEFAULT_MIN_PRICE, DEFAULT_MAX_PRICE>>})

DetectorInit ==
    /\ stats = DetectionStatsDefault
    /\ is_running = FALSE
    /\ validation_enabled = TRUE
    /\ stop_requested = FALSE
    /\ op = "none"
    /\ pc = "idle"
    /\ phase = "check"
    /\ snap = NoPair
    /\ wait = NoWait
    /\ last = NoResult
    /\ emitted = NoOutput
    /\ ret = NoReturn
    /\ metrics = MetricsNew
    /\ in_flight = [t \in Threads |-> NoCall]
    /\ passed = NonePassed
    /\ performance = NoMetrics

\* the state after ConnectionManager::new and ArbitrageDetector::new
Init ==
    /\ now = 0
    /\ config \in RunConfigs
    /\ price_cache = PriceCacheNew
    /\ read_locks = NoLocks
    /\ cleanup_pc = "solana"
    /\ last_pushed = [s \in Sources |-> NoUpdate]
    /\ DetectorInit
    /\ ReconnectInit
    /\ FeedInit

DetectorNext ==
    \/ StartMainLoop
    \/ StartDetection
    \/ WaitForOpportunity
    \/ StopDetection
    \/ ResetStats
    \/ LoopHead
    \/ LockSolana
    \/ LockBinance
    \/ CloneSolana
    \/ CloneBinance
    \/ ReturnPair

Next ==
    \/ BinanceFeed
    \/ SolanaFeed
    \/ ClearStaleSolana
    \/ ClearStaleBinance
    \/ ClockTick
    \/ DetectorNext

Spec == Init /\ [][Next]_vars

----------------------------------------------------------------------------
(* The detector over one frozen cache: the cache contents, the configuration and *)
(* the time of the calls are drawn from every combination of the model, and only *)
(* the detector runs.                                                            *)

AllConfigs == ConfigNew(Thresholds, BoundsChoices)

\* maximum price ages: the default and 0 ms
MaxAgeChoices == {DEFAULT_MAX_PRICE_AGE, 0}

\* a configuration whose max_price_age_ms is MaxPriceAge::new(value), the
\* constructor that accepts any value
WithMaxPriceAge(c, value) == [c EXCEPT !.max_price_age_ms = value]

SnapshotConfigs == {WithMaxPriceAge(c, a) : c \in AllConfigs, a \in MaxAgeChoices}

\* what a slot can hold at MaxTime: nothing, or any price pushed at any earlier time
SlotChoices(source) ==
    {None} \cup {[price |-> p, source |-> source, timestamp |-> t] :
                    p \in AllPrices, t \in 0..MaxTime}

UpdateOf(slot) ==
    IF slot = None THEN NoUpdate
    ELSE PriceUpdateNew(slot.source, "SolUsdt", slot.price, slot.timestamp)

InitSnapshot ==
    /\ now = MaxTime
    /\ config \in SnapshotConfigs
    /\ \E s \in SlotChoices("Solana"), b \in SlotChoices("Binance") :
          /\ price_cache = [solana_price |-> s, binance_price |-> b]
          /\ last_pushed = [x \in Sources |-> IF x = "Solana" THEN UpdateOf(s)
                                              ELSE UpdateOf(b)]
    /\ read_locks = NoLocks
    /\ cleanup_pc = "solana"
    /\ DetectorInit
    /\ ReconnectInit
    /\ FeedInit

SpecSnapshot == InitSnapshot /\ [][DetectorNext]_vars

----------------------------------------------------------------------------
(* One ReconnectHandler on its own: every valid configuration of the model, with *)
(* calls of should_reconnect and of reset as time passes.                        *)

\* 100 ms, 1 ms and 1.5 ms, and 0
InitialDelays == {from_millis(100), from_millis(1), 1500, 0}
\* 1000 ms and 50 ms
MaxDelays == {from_millis(1000), from_millis(50)}
\* 2.0, 1.5 and 1.0
Multipliers == {200, 150, 100}
MaxAttemptsChoices == {NoLimit, 0, 2, 5}
MaxDurationChoices == {NoLimit, 0, 1}

ReconnectConfigs ==
    {c \in {MkReconnectConfig(i, m, b, a, d, j) :
                i \in InitialDelays, m \in MaxDelays, b \in Multipliers,
                a \in MaxAttemptsChoices, d \in MaxDurationChoices, j \in BOOLEAN} :
        validate(c)}

\* the configuration {initial 100 ms, max 1000 ms, multiplier 2, 5 attempts}
\* without jitter and without a total duration
BackoffExample ==
    MkReconnectConfig(from_millis(100), from_millis(1000), 200, 5, NoLimit, FALSE)

InitReconnect ==
    /\ now = 0
    /\ config = MkConfig(10, <<DEFAULT_MIN_PRICE, DEFAULT_MAX_PRICE>>)
    /\ price_cache = PriceCacheNew
    /\ read_locks = NoLocks
    /\ cleanup_pc = "solana"
    /\ last_pushed = [s \in Sources |-> NoUpdate]
    /\ DetectorInit
    /\ handler \in {ReconnectHandlerNew(c) : c \in ReconnectConfigs}
    /\ returned = NoReturned
    /\ FeedInit

NextReconnect ==
    \/ ShouldReconnect
    \/ ResetHandler
    \/ ClockTick

SpecReconnect == InitReconnect /\ [][NextReconnect]_vars

----------------------------------------------------------------------------
(* One feed task from construction on: connections, frames, failures, failover,  *)
(* backoff and the shutdown signal.                                              *)

\* 100 ms doubling up to 1 s without jitter, with each limit of the model
FeedReconnectConfigs ==
    {c \in ReconnectConfigs :
        /\ c.initial_delay = from_millis(100)
        /\ c.max_delay = from_millis(1000)
        /\ c.backoff_multiplier = 200
        /\ c.max_total_duration # 0
        /\ ~c.jitter}

\* the texts a feed of this specification receives
FeedTexts(source) ==
    IF source = "Solana"
    THEN {MkText("Ack", "", NoBlob),
          MkText("Blob", "", MkBlob(MinRawLen, <<6, 1>>, 0, 1000, 200))}
    ELSE {MkText("Garbage", "", NoBlob), MkText("Ticker", "195.0", NoBlob)}

InitFeed ==
    /\ now = 0
    /\ config = MkConfig(10, <<DEFAULT_MIN_PRICE, DEFAULT_MAX_PRICE>>)
    /\ price_cache = PriceCacheNew
    /\ read_locks = NoLocks
    /\ cleanup_pc = "solana"
    /\ last_pushed = [s \in Sources |-> NoUpdate]
    /\ DetectorInit
    /\ handler \in {ReconnectHandlerNew(c) : c \in FeedReconnectConfigs}
    /\ returned = NoReturned
    /\ feed \in {SolanaClientNew(n) : n \in 0..MaxProviders} \cup {BinanceClientNew}
    /\ process = "running"

StreamFrame == \E text \in FeedTexts(feed.source) : StreamText(text)

FeedNext ==
    \/ ConnectFailed
    \/ Connected
    \/ StreamFrame
    \/ StreamOther
    \/ StreamClosed
    \/ StreamError
    \/ SleepDone

NextFeed ==
    \/ FeedNext
    \/ CtrlC
    \/ MainReturn
    \/ ClockTick

SpecFeed == InitFeed /\ [][NextFeed]_vars

\* the feed task is scheduled as long as it can take a step; nothing obliges the
\* shutdown signal to arrive
FairSpecFeed == SpecFeed /\ WF_vars(FeedNext)

----------------------------------------------------------------------------
(* One session of a feed receiving every text of the model.                      *)

DecodeFrame == \E text \in Texts(feed.source) : StreamText(text)

NextDecode ==
    \/ Connected
    \/ DecodeFrame
    \/ ClockTick

InitDecode ==
    /\ InitFeed
    /\ feed.pc = "connect"
    /\ handler = ReconnectHandlerNew(BackoffExample)

SpecDecode == InitDecode /\ [][NextDecode]_vars

----------------------------------------------------------------------------
(* The shutdown of main: the detection task in its loop and one feed task, the   *)
(* slot of the other feed holding the price that feed delivered at time 0.       *)

\* the price the other feed delivered before the run of this specification
DeliveredAtStart(source) ==
    PriceUpdateNew(source, "SolUsdt", IF source = "Solana" THEN 1900 ELSE 1950, 0)

InitShutdown ==
    /\ now = 0
    /\ config = MkConfig(10, <<DEFAULT_MIN_PRICE, DEFAULT_MAX_PRICE>>)
    /\ feed \in {SolanaClientNew(MaxProviders), BinanceClientNew}
    /\ LET other == IF feed.source = "Solana" THEN "Binance" ELSE "Solana"
       IN  /\ price_cache = CacheUpdate(PriceCacheNew, DeliveredAtStart(other))
           /\ last_pushed = [s \in Sources |-> IF s = other
                                                THEN DeliveredAtStart(other)
                                                ELSE NoUpdate]
    /\ read_locks = NoLocks
    /\ cleanup_pc = "solana"
    /\ DetectorInit
    /\ handler = ReconnectHandlerNew(
                    MkReconnectConfig(from_millis(100), from_millis(1000), 200, 2,
                                      NoLimit, FALSE))
    /\ returned = NoReturned
    /\ process = "running"

\* the loop of the detection task of main
DetectionTaskNext ==
    \/ StartMainLoop
    \/ LoopHead
    \/ LockSolana
    \/ LockBinance
    \/ CloneSolana
    \/ CloneBinance
    \/ ReturnPair

NextShutdown ==
    \/ FeedNext
    \/ DetectionTaskNext
    \/ CtrlC
    \/ MainReturn
    \/ ClockTick

SpecShutdown == InitShutdown /\ [][NextShutdown]_vars

----------------------------------------------------------------------------
(* The store and the tasks that lock it: the two feed writers, the cleanup and   *)
(* the detection task of main as the reader.                                     *)

InitStore ==
    /\ Init
    /\ config = MkConfig(10, <<DEFAULT_MIN_PRICE, DEFAULT_MAX_PRICE>>)

\* the statements of get_both_prices
GetBothPricesNext ==
    \/ LockSolana
    \/ LockBinance
    \/ CloneSolana
    \/ CloneBinance
    \/ ReturnPair

NextStore ==
    \/ BinanceFeed
    \/ SolanaFeed
    \/ ClearStaleSolana
    \/ ClearStaleBinance
    \/ StartMainLoop
    \/ LoopHead
    \/ GetBothPricesNext
    \/ ClockTick

SpecStore == InitStore /\ [][NextStore]_vars

\* a thread inside get_both_prices keeps running, and a writer waiting for a lock
\* that is free again and again obtains it
FairSpecStore ==
    /\ SpecStore
    /\ WF_vars(GetBothPricesNext)
    /\ SF_vars(ClearStaleSolana)
    /\ SF_vars(ClearStaleBinance)

----------------------------------------------------------------------------
(* The MetricsCollector on its own: calls of set_queue_depth from several        *)
(* threads, and the counters get_metrics turns into an efficiency.               *)

\* the state after MetricsCollector::new, the rest of the program at its start
InitCollector ==
    /\ InitFeed
    /\ feed = BinanceClientNew
    /\ handler = ReconnectHandlerNew(BackoffExample)

SetQueueDepthCall ==
    \E t \in Threads, depth \in QueueDepths : SetQueueDepthStore(t, depth)
SetQueueDepthLoad == \E t \in Threads : SetQueueDepthLoadMax(t)
SetQueueDepthReturn == \E t \in Threads : SetQueueDepthStoreMax(t)

NextQueueDepth ==
    \/ SetQueueDepthCall
    \/ SetQueueDepthLoad
    \/ SetQueueDepthReturn
    \/ ResetMetrics

SpecQueueDepth == InitCollector /\ [][NextQueueDepth]_vars

NextEfficiency ==
    \/ RecordSolanaMessage
    \/ RecordBinanceMessage
    \/ RecordError
    \/ GetMetrics
    \/ ResetMetrics

SpecEfficiency == InitCollector /\ [][NextEfficiency]_vars

----------------------------------------------------------------------------
(* Properties of the price cache, checked under Spec *)

\* C1: PriceCache::update replaces exactly the slot of the update's source. Each
\* slot holds the update pushed last for its source, or nothing when none was pushed
\* since the cleanup emptied it, and the values get_both_prices clones are those
\* latest updates.
C1_SlotHoldsLatestPush ==
    /\ \A source \in Sources :
          LET slot == price_cache[SlotOf(source)]
              u == last_pushed[source]
          IN  IF u = NoUpdate
              THEN slot = None
              ELSE /\ slot.price = u.price
                   /\ slot.source = source
                   /\ slot.timestamp = u.timestamp
    /\ pc \in {"clone_binance", "return_pair"} =>
          /\ last_pushed["Solana"] # NoUpdate
          /\ snap.solana_price.price = last_pushed["Solana"].price
          /\ snap.solana_price.source = "Solana"
          /\ snap.solana_price.timestamp = last_pushed["Solana"].timestamp
    /\ pc = "return_pair" =>
          /\ last_pushed["Binance"] # NoUpdate
          /\ snap.binance_price.price = last_pushed["Binance"].price
          /\ snap.binance_price.source = "Binance"
          /\ snap.binance_price.timestamp = last_pushed["Binance"].timestamp

\* a read returns a Solana update pushed after the clock moved, next to an older
\* Binance update, while the cleanup is between its two slots
C1_Witness ==
    /\ pc = "return_pair"
    /\ snap.solana_price.timestamp >= 1
    /\ snap.solana_price.price = 1950
    /\ snap.binance_price.timestamp = 0
    /\ cleanup_pc = "binance"

\* C2: the pair get_both_prices returns is the content of the two slots at one
\* instant: while the second slot is cloned the first clone still equals its slot,
\* and at the return both clones equal the cache, neither of them empty.
C2_PairIsOneInstant ==
    /\ pc = "clone_binance" => snap.solana_price = price_cache.solana_price
    /\ pc = "return_pair" =>
          /\ snap = price_cache
          /\ IsSome(snap.solana_price)
          /\ IsSome(snap.binance_price)

\* a pair is returned whose two prices were pushed at different times
C2_Witness ==
    /\ pc = "return_pair"
    /\ IsSome(snap.solana_price)
    /\ IsSome(snap.binance_price)
    /\ snap.solana_price.timestamp < snap.binance_price.timestamp

----------------------------------------------------------------------------
(* Properties of one check over a frozen cache, checked under SpecSnapshot *)

\* C3: get_validated_prices decides in a fixed order. An empty slot gives
\* NoFreshData; otherwise a price older than max_price_age gives StaleData;
\* otherwise a price that is not finite, not positive or outside the range the
\* validator enforces gives InvalidPrice; otherwise the result is Ok. A pair that
\* is both stale and invalid is reported as StaleData.
C3_ValidationOrder ==
    LET solana == price_cache.solana_price
        binance == price_cache.binance_price
        max_age == config.max_price_age_ms
        Empty == solana = None \/ binance = None
        Stale == now - solana.timestamp > max_age \/ now - binance.timestamp > max_age
        Bad(p) == \/ p = NaN
                  \/ p = PosInf
                  \/ p <= 0
                  \/ p < MIN_SOL_PRICE
                  \/ p > MAX_SOL_PRICE
    IN  last.kind # "None" =>
           IF Empty THEN last.kind = "Err" /\ last.error.kind = "NoFreshData"
           ELSE IF Stale THEN last.kind = "Err" /\ last.error.kind = "StaleData"
           ELSE IF Bad(solana.price) \/ Bad(binance.price)
           THEN last.kind = "Err" /\ last.error.kind = "InvalidPrice"
           ELSE last.kind = "Ok"

\* a check has answered StaleData for a pair whose fresh half is not a number
C3_Witness ==
    /\ last.kind = "Err"
    /\ last.error.kind = "StaleData"
    /\ IsSome(price_cache.solana_price)
    /\ now - price_cache.solana_price.timestamp > config.max_price_age_ms
    /\ IsSome(price_cache.binance_price)
    /\ now - price_cache.binance_price.timestamp <= config.max_price_age_ms
    /\ price_cache.binance_price.price = NaN

\* C4: the validator enforces the configured price bounds: of two fresh, finite,
\* positive prices, one outside [min_price, max_price] of the configuration gives
\* InvalidPrice, and two prices inside it give Ok.
C4_ConfiguredBoundsEnforced ==
    LET solana == price_cache.solana_price
        binance == price_cache.binance_price
        max_age == config.max_price_age_ms
        bounds == config.price_bounds
        Usable(sp) == /\ IsSome(sp)
                      /\ now - sp.timestamp <= max_age
                      /\ is_finite(sp.price)
                      /\ sp.price > 0
        Inside(p) == p >= bounds.min_price /\ p <= bounds.max_price
    IN  (last.kind # "None" /\ Usable(solana) /\ Usable(binance)) =>
           IF Inside(solana.price) /\ Inside(binance.price)
           THEN last.kind = "Ok"
           ELSE last.kind = "Err" /\ last.error.kind = "InvalidPrice"

\* C6: no opportunity with net_profit_per_unit <= 0 is returned, counted, emitted
\* or handed back by wait_for_opportunity; with the exchange at 195.1 and the pool
\* at 195.0, both fresh, the check answers Ok(None) and nothing is emitted.
C6_OnlyProfitableOpportunities ==
    /\ last.opp # NoOpportunity => last.opp.net_profit_per_unit > 0
    /\ emitted.kind = "Opportunity" =>
          emitted.opp # NoOpportunity /\ emitted.opp.net_profit_per_unit > 0
    /\ ret.kind = "Ok" => ret.opp # NoOpportunity /\ ret.opp.net_profit_per_unit > 0
    /\ stats.best_opportunity # NoOpportunity =>
          stats.best_opportunity.net_profit_per_unit > 0
    /\ ( /\ last.kind # "None"
         /\ IsSome(price_cache.solana_price)
         /\ IsSome(price_cache.binance_price)
         /\ price_cache.solana_price.price = 1950
         /\ price_cache.binance_price.price = 1951
         /\ now - price_cache.solana_price.timestamp <= config.max_price_age_ms
         /\ now - price_cache.binance_price.timestamp <= config.max_price_age_ms )
       => /\ last.kind = "Ok"
          /\ last.opp = NoOpportunity
          /\ emitted.kind # "Opportunity"
          /\ ret.kind # "Ok"

\* the main loop has checked the fresh pair 195.0 / 195.1 and found nothing
C6_Witness ==
    /\ op = "main"
    /\ pc = "tick"
    /\ last.kind = "Ok"
    /\ last.opp = NoOpportunity
    /\ price_cache.solana_price.price = 1950
    /\ price_cache.binance_price.price = 1951
    /\ price_cache.solana_price.timestamp = now
    /\ price_cache.binance_price.timestamp = now

----------------------------------------------------------------------------
(* Properties of the detector next to the running feeds, checked under Spec *)

\* C5: a tick emits an opportunity to the subscriber or the output exactly when the
\* check found one whose profit_percentage is at least the configured threshold.
C5_EmittedIffThresholdMet ==
    emitted.kind = "Opportunity" <=>
        /\ op \in {"main", "start_detection"}
        /\ last.kind = "Ok"
        /\ last.opp # NoOpportunity
        /\ exceeds_threshold(last.opp, config.threshold)

\* C7: whatever ticks and resets have happened, opportunities_found is at most
\* total_checks and threshold_opportunities is at most opportunities_found.
C7_CountersOrdered ==
    /\ stats.opportunities_found <= stats.total_checks
    /\ stats.threshold_opportunities <= stats.opportunities_found

\* start_detection has counted an opportunity below the threshold after more than
\* one check
C7_Witness ==
    /\ stats.total_checks >= 2
    /\ stats.opportunities_found >= 1
    /\ stats.threshold_opportunities < stats.opportunities_found

\* C8: a tick of a detection loop that ends in StaleData or InvalidPrice adds
\* exactly one to the error counter, emits no opportunity and leaves the loop
\* running.
C8_ValidationErrorCounted ==
    [][ ( /\ op \in {"main", "start_detection"}
          /\ last = NoResult
          /\ last'.kind = "Err"
          /\ last'.error.kind \in {"StaleData", "InvalidPrice"} )
        => /\ metrics'.processing_errors = metrics.processing_errors + 1
           /\ emitted'.kind # "Opportunity"
           /\ op' = op
           /\ pc' = "tick" ]_vars

\* C9: a tick of a detection loop that ends in NoFreshData leaves the error counter
\* as it was and leaves the loop running.
C9_NoFreshDataNotCounted ==
    [][ ( /\ op \in {"main", "start_detection"}
          /\ last = NoResult
          /\ last'.kind = "Err"
          /\ last'.error.kind = "NoFreshData" )
        => /\ metrics'.processing_errors = metrics.processing_errors
           /\ emitted'.kind # "Opportunity"
           /\ op' = op
           /\ pc' = "tick" ]_vars

\* C10: wait_for_opportunity returns only an opportunity that meets the threshold,
\* or DetectionTimeout once the timeout has elapsed; a poll that finds the cache
\* empty or stale before the timeout does not end the wait.
C10_WaitReturnsOpportunityOrTimeout ==
    [][ op = "wait_for_opportunity" /\ op' = "none"
        => \/ /\ ret'.kind = "Ok"
              /\ ret'.opp # NoOpportunity
              /\ exceeds_threshold(ret'.opp, config.threshold)
           \/ /\ ret'.kind = "DetectionTimeout"
              /\ now - wait.start >= wait.timeout ]_vars

----------------------------------------------------------------------------
(* Properties of the detector's lifecycle, checked under Spec *)

\* C11: the detector only goes Idle -> Running -> Stopped. It runs while the
\* detection loop executes and no stop was requested; once stop_detection has been
\* called it is not running again, and a detection loop entered after the stop
\* ends at its loop condition without emitting.
C11_LifecycleIdleRunningStopped ==
    /\ (op = "start_detection" /\ ~stop_requested) => is_running
    /\ stop_requested => ~is_running
    /\ (op = "start_detection" /\ stop_requested) =>
          pc = "tick" /\ emitted.kind # "Opportunity"

----------------------------------------------------------------------------
(* Properties of the fee model, checked under SpecSnapshot: the cache is the     *)
(* validated pair and last.calculated is what calculate_opportunity answered     *)

C13_BuyLowSellHigh ==
    LET dex == price_cache.solana_price.price
        cex == price_cache.binance_price.price
        c == last.calculated
    IN  last.kind = "Ok" =>
           /\ c # NoOpportunity =>
                 /\ c.buy_price < c.sell_price
                 /\ c.raw_profit_per_unit = c.sell_price - c.buy_price
                 /\ c.raw_profit_per_unit > 0
                 /\ c.buy_source # c.sell_source
                 /\ c.buy_source = "Solana" => c.buy_price = dex /\ c.sell_price = cex
                 /\ c.buy_source = "Binance" => c.buy_price = cex /\ c.sell_price = dex
           /\ dex = cex => c = NoOpportunity
           /\ dex # cex => c # NoOpportunity

\* the calculator has answered for two equal valid prices
C13_Witness ==
    /\ last.kind = "Ok"
    /\ price_cache.solana_price.price = 1950
    /\ price_cache.binance_price.price = 1950
    /\ last.calculated = NoOpportunity

\* C14: for two distinct prices a and b, the answers for (cex = a, dex = b) and for
\* (cex = b, dex = a) have buy_source and sell_source exchanged and the same
\* raw_profit_per_unit = |a - b|.
C14_SwapReversesSides ==
    LET dex == price_cache.solana_price
        cex == price_cache.binance_price
        c == last.calculated
        swapped == calculate_opportunity(
                       ValidatedPricePairNew([dex EXCEPT !.price = cex.price],
                                             [cex EXCEPT !.price = dex.price]))
    IN  (last.kind = "Ok" /\ dex.price # cex.price) =>
           /\ c.buy_source = swapped.sell_source
           /\ c.sell_source = swapped.buy_source
           /\ c.buy_source \in Sources
           /\ c.sell_source \in Sources
           /\ c.raw_profit_per_unit = swapped.raw_profit_per_unit
           /\ c.raw_profit_per_unit =
                 IF dex.price > cex.price THEN dex.price - cex.price
                 ELSE cex.price - dex.price

\* the calculator has answered for a pair whose DEX price is the higher one
C14_Witness ==
    /\ last.kind = "Ok"
    /\ price_cache.solana_price.price = 1950
    /\ price_cache.binance_price.price = 1900
    /\ last.calculated.buy_source = "Binance"
    /\ last.calculated.raw_profit_per_unit = 50

----------------------------------------------------------------------------
(* Properties of the validated pair, checked under SpecSnapshot *)

\* C15: for every ValidatedPricePair, price_spread = |dex_price - cex_price| >= 0
\* and price_spread_percentage = 100 * price_spread / cex_price: normalised by the
\* CEX price, not by the DEX price.
C15_SpreadNormalisedByCex ==
    LET dex == price_cache.solana_price.price
        cex == price_cache.binance_price.price
        spread == last.spread.price_spread
        pct == last.spread.price_spread_percentage
    IN  last.kind = "Ok" =>
           /\ spread >= 0
           /\ spread = IF dex > cex THEN dex - cex ELSE cex - dex
           /\ pct.den > 0
           /\ pct.num * cex = 100 * spread * pct.den
           /\ dex # cex => pct.num * dex # 100 * spread * pct.den

\* a pair with a DEX price of 50.0 and a CEX price of 195.1 has been validated
C15_Witness ==
    /\ last.kind = "Ok"
    /\ price_cache.solana_price.price = 500
    /\ price_cache.binance_price.price = 1951
    /\ last.spread.price_spread = 1451

----------------------------------------------------------------------------
(* Properties of the freshness window, checked under SpecSnapshot *)

\* C16 as stated: with max_age = 0 and both slots populated, validation always
\* fails with StaleData, also when it happens at the instant of the updates.
C16_ZeroMaxAgeAlwaysStale ==
    ( /\ config.max_price_age_ms = 0
      /\ IsSome(price_cache.solana_price)
      /\ IsSome(price_cache.binance_price)
      /\ last.kind # "None" )
    => last.kind = "Err" /\ last.error.kind = "StaleData"

\* C16, amended: with max_age = 0 and both slots populated, validation fails with
\* StaleData exactly when one of the two observations is older than 0 at the
\* validation; a validation at the instant of both updates (age 0) is not stale.
C16_ZeroMaxAgeStaleIffOlder ==
    ( /\ config.max_price_age_ms = 0
      /\ IsSome(price_cache.solana_price)
      /\ IsSome(price_cache.binance_price)
      /\ last.kind # "None" )
    => ( (last.kind = "Err" /\ last.error.kind = "StaleData")
         <=> \/ now - price_cache.solana_price.timestamp > 0
             \/ now - price_cache.binance_price.timestamp > 0 )

\* with max_age = 0, a pair observed at the instant of the validation has passed
C16_Witness ==
    /\ config.max_price_age_ms = 0
    /\ price_cache.solana_price.timestamp = now
    /\ price_cache.binance_price.timestamp = now
    /\ price_cache.solana_price.price = 1900
    /\ price_cache.binance_price.price = 1950
    /\ last.kind = "Ok"

----------------------------------------------------------------------------
(* Properties of the cleanup, checked under Spec *)

\* C17: clear_stale_prices empties exactly the slots whose observation is older
\* than max_age at the moment of the purge and leaves every other slot as it was;
\* interleaved with updates, it never removes an observation of age <= max_age.
C17_PurgeOnlyStale ==
    [][ /\ (cleanup_pc = "solana" /\ cleanup_pc' = "binance") =>
              /\ price_cache'.binance_price = price_cache.binance_price
              /\ price_cache'.solana_price =
                    IF /\ IsSome(price_cache.solana_price)
                       /\ now - price_cache.solana_price.timestamp
                             > config.max_price_age_ms
                    THEN None ELSE price_cache.solana_price
        /\ (cleanup_pc = "binance" /\ cleanup_pc' = "solana") =>
              /\ price_cache'.solana_price = price_cache.solana_price
              /\ price_cache'.binance_price =
                    IF /\ IsSome(price_cache.binance_price)
                       /\ now - price_cache.binance_price.timestamp
                             > config.max_price_age_ms
                    THEN None ELSE price_cache.binance_price ]_vars

\* the purge has passed over both slots after time went by: the Solana slot is
\* empty and a Binance observation of exactly the maximum age is still there
C17_Witness ==
    /\ cleanup_pc = "solana"
    /\ now = 2
    /\ price_cache.solana_price = None
    /\ last_pushed["Solana"] = NoUpdate
    /\ IsSome(price_cache.binance_price)
    /\ now - price_cache.binance_price.timestamp = config.max_price_age_ms


----------------------------------------------------------------------------
\* C18 (general part): with jitter disabled, a successful should_reconnect returns
\* the current delay and then sets current_delay to
\* min(current_delay * multiplier, max_delay).
C18_ReturnsCurrentThenMultiplies ==
    [][(/\ returned'.calls = returned.calls + 1
        /\ returned'.kind = "Ok"
        /\ ~handler.config.jitter)
       => /\ returned'.delay = handler.current_delay
          /\ handler'.current_delay * 100 =
                IF handler.current_delay * handler.config.backoff_multiplier
                      < handler.config.max_delay * 100
                THEN handler.current_delay * handler.config.backoff_multiplier
                ELSE handler.config.max_delay * 100]_vars

\* C18 (worked example): for {100 ms, 1000 ms, 2, 5 attempts} the successive
\* results are 100, 200, 400, 800, 1000 ms and the sixth call fails with
\* MaxAttemptsExceeded.
C18_ExampleSequence ==
    (handler.config = BackoffExample /\ returned.calls > 0)
    => IF returned.calls <= 5
       THEN /\ returned.kind = "Ok"
            /\ returned.delay =
                  from_millis(<<100, 200, 400, 800, 1000>>[returned.calls])
       ELSE returned.kind = "MaxAttemptsExceeded"

\* the sixth call of the worked example has been made
C18_ExampleWitness ==
    handler.config = BackoffExample /\ returned.calls = 6

\* C19: for every valid configuration the delays of the successful calls are
\* non-decreasing and at most max_delay, and with jitter a returned delay is within
\* 10% of the delay it was computed from.
C19_DelaysMonotoneAndBounded ==
    returned.kind = "Ok"
    => /\ returned.oks > 1 => returned.base >= returned.prev
       /\ returned.base <= handler.config.max_delay
       /\ IF handler.config.jitter
          THEN /\ 10 * (returned.delay - returned.base) <= returned.base
               /\ 10 * (returned.base - returned.delay) <= returned.base
          ELSE returned.delay = returned.base

\* C19 (monotonicity alone, jitter disabled): a returned delay is never below the
\* one returned before it.
C19_DelaysNonDecreasing ==
    (returned.kind = "Ok" /\ ~handler.config.jitter /\ returned.oks > 1)
    => returned.base >= returned.prev

\* C20: after max_attempts successful calls since construction or reset a call
\* fails with MaxAttemptsExceeded, whatever time has passed; otherwise, once
\* max_total_duration has elapsed since the first attempt, a call fails with
\* ConnectionTimeout; a failing call leaves attempt_count and current_delay
\* unchanged.
C20_LimitsInOrder ==
    [][returned'.calls = returned.calls + 1
       => LET cfg == handler.config
              exhausted == cfg.max_attempts # NoLimit
                           /\ returned.oks >= cfg.max_attempts
              elapsed == cfg.max_total_duration # NoLimit
                         /\ now - handler'.start_time >= cfg.max_total_duration
          IN  /\ exhausted => returned'.kind = "MaxAttemptsExceeded"
              /\ (~exhausted /\ elapsed) => returned'.kind = "ConnectionTimeout"
              /\ (~exhausted /\ ~elapsed) => returned'.kind = "Ok"
              /\ returned'.kind # "Ok"
                 => /\ handler'.attempt_count = handler.attempt_count
                    /\ handler'.current_delay = handler.current_delay]_vars

\* a call failed with MaxAttemptsExceeded although max_total_duration had elapsed
\* as well
C20_Witness ==
    /\ returned.kind = "MaxAttemptsExceeded"
    /\ handler.config.max_total_duration > 0
    /\ handler.start_time # NoInstant
    /\ now - handler.start_time >= handler.config.max_total_duration
    /\ returned.oks = handler.config.max_attempts


----------------------------------------------------------------------------
\* current_delay of a freshly constructed handler after k successful calls
RECURSIVE DelayAfter(_, _)
DelayAfter(c, k) ==
    IF k = 0
    THEN c.initial_delay
    ELSE update_delay([ReconnectHandlerNew(c) EXCEPT
                          !.current_delay = DelayAfter(c, k - 1)]).current_delay

\* C21: reset restores the state of a freshly constructed handler (attempt_count 0,
\* no start_time, current_delay = initial_delay) after any calls, failed ones
\* included, and from there the handler goes through the delays and reaches the
\* attempt count of a fresh handler with as many successful calls.
C21_ResetRestoresInitialState ==
    /\ returned.calls = 0 => handler = ReconnectHandlerNew(handler.config)
    /\ handler.attempt_count = returned.oks
    /\ handler.current_delay = DelayAfter(handler.config, returned.oks)

\* a handler that was reset after a failed call has answered two calls again
C21_Witness ==
    /\ returned.after \in {"MaxAttemptsExceeded", "ConnectionTimeout"}
    /\ returned.kind = "Ok"
    /\ returned.oks = 2
    /\ handler.current_delay # handler.config.initial_delay


----------------------------------------------------------------------------
\* this step is the feed receiving the text frame it records
TextReceived == StreamText(feed'.frame)

\* C22: whenever a feed receives a message successfully, its reconnect state is
\* reset: attempt_count 0, no start_time, current_delay = initial_delay.
C22_MessageResetsReconnectState ==
    [][(TextReceived /\ feed'.event = "Update")
       => handler' = ReconnectHandlerNew(handler.config)]_vars

\* C23: the pointer starts at provider 0; a failure on a provider that is not the
\* last moves to the next provider at once without consulting the policy; a
\* failure on the last provider consults the policy once, sleeps the delay and
\* then goes back to provider 0.
C23_FailoverBeforeBackoff ==
    [][feed.source = "Solana"
       => /\ feed.event = "None" => feed.current_provider_index = 0
          /\ (ConnectFailed \/ StreamError)
             => IF feed.current_provider_index + 1 < feed.providers
                THEN /\ feed'.current_provider_index = feed.current_provider_index + 1
                     /\ feed'.pc = "connect"
                     /\ handler' = handler
                     /\ returned' = returned
                ELSE /\ returned'.calls = returned.calls + 1
                     /\ feed'.current_provider_index = feed.current_provider_index
                     /\ feed'.pc = IF returned'.kind = "Ok" THEN "sleep" ELSE "done"
          /\ SleepDone
             => /\ feed'.current_provider_index = 0
                /\ feed'.pc = "connect"
                /\ returned' = returned]_vars

\* both providers failed, the policy was consulted once and the sleep is over
C23_Witness ==
    /\ feed.source = "Solana"
    /\ feed.providers = 2
    /\ feed.event = "Slept"
    /\ feed.current_provider_index = 0
    /\ returned.calls = 1

\* C24: after a close frame, the end of the stream or an I/O error the feed is back
\* in its reconnect loop (connecting or sleeping), unless the policy gave up.
C24_CloseLeadsToReconnect ==
    feed.event \in {"Close", "StreamEnd", "IoError", "PongFailed"}
    => \/ feed.pc \in {"connect", "sleep"}
       \/ feed.result = "ReconnectFailed"

\* C25: when the reconnect policy of a feed fails, the process terminates.
C25_ExhaustionTerminatesProcess ==
    (feed.result = "ReconnectFailed") ~> (process = "stopped")

\* C26: a Solana client with no provider is not constructed
\* (NoProvidersAvailable), and the index of a constructed client is always that of
\* one of its providers.
C26_ProviderIndexValid ==
    feed.source = "Solana"
    => IF feed.providers = 0
       THEN feed.pc = "unbuilt" /\ feed.result = "NoProvidersAvailable"
       ELSE /\ feed.pc # "unbuilt"
            /\ feed.current_provider_index >= 0
            /\ feed.current_provider_index < feed.providers

\* the client is on its last provider again after a backoff sent it back to the
\* first
C26_Witness ==
    /\ feed.source = "Solana"
    /\ feed.providers = 2
    /\ feed.current_provider_index = 1
    /\ feed.recovery = "Failover"
    /\ returned.oks >= 1

\* C27: a notification of an inactive pool (status # 6 or state # 1) is dropped
\* whatever the length of its blob, and the store is left as it was.
C27_InactivePoolNeverPushed ==
    [][LET text == feed'.frame
       IN  (/\ feed.source = "Solana"
            /\ text.form = "Blob"
            /\ ~is_active(PoolStateOf(text.blob))
            /\ TextReceived)
           => /\ feed'.event = "Dropped"
              /\ price_cache' = price_cache]_vars

\* C28: the Solana slot of the store never holds a price below 10 or above 1000.
C28_SuspiciousPriceNeverStored ==
    IsSome(price_cache.solana_price)
    => /\ price_cache.solana_price.price >= 100
       /\ price_cache.solana_price.price <= 10000

\* C28 (fallback path alone): a blob that strict decoding refuses pushes no price
\* below 10 or above 1000.
C28_FallbackPriceWithinBounds ==
    (/\ feed.source = "Solana"
     /\ feed.event = "Update"
     /\ feed.frame.blob.len # PoolStateSize)
    => /\ last_pushed["Solana"].price >= 100
       /\ last_pushed["Solana"].price <= 10000

\* C29: when strict decoding fails, a blob shorter than 400 bytes or with a zero
\* u64 at offset 232 is an error without update; otherwise the price is
\* (quote / 10^6) / (base / 10^9) with base the u64 at offset 232 and quote the
\* u64 at offset 240, pushed when it lies within the sanity bounds; base 10^15 and
\* quote 2 * 10^14 give 200.0.
C29_FallbackPrice ==
    [][LET text == feed'.frame
       IN  (/\ feed.source = "Solana"
            /\ text.form = "Blob"
            /\ text.blob.len # PoolStateSize
            /\ TextReceived)
          => LET base == text.blob.word[232]
                 quote == text.blob.word[240]
                 pushed == /\ feed'.event = "Update"
                           /\ price_cache'.solana_price.price = (quote * 10000) \div base
                 dropped == /\ feed'.event = "Dropped"
                            /\ price_cache' = price_cache
             IN  /\ (text.blob.len < 400 \/ base = 0) => dropped
                 /\ (text.blob.len >= 400 /\ base # 0) =>
                       IF (quote * 10000) \div base \in 100..10000
                       THEN pushed ELSE dropped
                 /\ (text.blob.len = 400 /\ base = 1000 /\ quote = 200)
                    => /\ feed'.event = "Update"
                       /\ price_cache'.solana_price.price = 2000]_vars

\* the blob of 400 bytes with 10^15 at offset 232 and 2 * 10^14 at offset 240 has
\* put 200.0 into the store
C29_Witness ==
    /\ feed.frame.form = "Blob"
    /\ feed.frame.blob.len = 400
    /\ feed.frame.blob.word[232] = 1000
    /\ feed.frame.blob.word[240] = 200
    /\ feed.event = "Update"
    /\ price_cache.solana_price.price = 2000

\* the texts the specification counts as failing to parse or decode: malformed
\* JSON, a subscription acknowledgement, a bad price string, bad base64, an
\* undersized blob, an inactive pool, a price outside the sanity bounds
FailingText(source, text) ==
    IF source = "Binance"
    THEN text.form = "Garbage" \/ ~parse_f64(text.c).ok
    ELSE \/ text.form # "Blob"
         \/ ~is_active(PoolStateOf(text.blob))
         \/ /\ text.blob.len # PoolStateSize
            /\ \/ text.blob.len < 400
               \/ text.blob.word[232] = 0
               \/ (text.blob.word[240] * 10000) \div text.blob.word[232]
                     \notin 100..10000

\* C30: a message that fails to parse or decode leaves both slots of the store
\* unchanged and the session open on the same provider.
C30_FailingMessageLeavesStoreAndSession ==
    [][LET text == feed'.frame
       IN  (text \in Texts(feed.source) /\ FailingText(feed.source, text)
            /\ TextReceived)
          => /\ price_cache' = price_cache
             /\ feed'.pc = "stream"
             /\ feed'.session = feed.session]_vars

\* C30 (what the code rejects): a text whose parsing returns an error leaves the
\* store unchanged and the session open, and the feed can take the next frame.
C30_RejectedTextLeavesStoreAndSession ==
    [][LET text == feed'.frame
       IN  (text \in Texts(feed.source) /\ ~ParseText(feed.source, text).ok
            /\ TextReceived)
          => /\ price_cache' = price_cache
             /\ feed'.pc = "stream"
             /\ feed'.session = feed.session
             /\ feed'.event = "Dropped"]_vars


----------------------------------------------------------------------------
\* C31: every PriceUpdate a feed has pushed to the store has a finite, strictly
\* positive price.
C31_PushedPricesFinitePositive ==
    \A source \in Sources :
        last_pushed[source] # NoUpdate
        => /\ is_finite(last_pushed[source].price)
           /\ last_pushed[source].price > 0


----------------------------------------------------------------------------
(* Properties of the shutdown, checked under SpecShutdown *)

\* C32: once main has cancelled the feeds on the shutdown signal, the detector has
\* halted: it is suspended at an await where its abort took effect, and no feed is
\* in the cancelled state while the detector is still inside a tick reading the
\* store.
C32_DetectorHaltedBeforeFeedsCancelled ==
    process # "running" => DetectionAtAwait

\* a feed has been cancelled while the detection task holds read locks of the store
C32_FeedCancelledDuringTick ==
    /\ feed.pc = "aborted"
    /\ pc = "clone_solana"
    /\ read_locks.solana_price = 1

----------------------------------------------------------------------------
(* Properties of the statistics of a tick, checked under Spec *)

\* C34: a tick records exactly one check when it obtains a validated pair and none
\* when validation fails. Within a tick total_checks grows by 1 in the step in
\* which check_for_opportunities returns Ok and by 0 in every other step, the
\* steps of the arm that follows included.
C34_OneCheckPerTick ==
    [][pc \notin {"idle", "tick"}
       => LET inc == stats'.total_checks - stats.total_checks
          IN  /\ phase = "check"
                 => inc = IF last' # last /\ last'.kind = "Ok" THEN 1 ELSE 0
              /\ phase = "recheck" => inc = 0]_vars


----------------------------------------------------------------------------
(* Properties of the MetricsCollector, checked under SpecQueueDepth and           *)
(* SpecEfficiency                                                                *)

\* C35: once the set_queue_depth calls made since the last reset have returned,
\* whether they ran one after another or at the same time on several threads,
\* current_queue_depth is the depth of the last call and max_queue_depth is the
\* largest depth that was passed.
C35_QueueDepthTracksLastAndLargest ==
    (\A t \in Threads : in_flight[t].pc = "idle")
    => /\ metrics.current_queue_depth = passed.last
       /\ metrics.max_queue_depth = passed.largest

\* two calls have returned and max_queue_depth is below a depth that was passed
C35_LostMaximum ==
    /\ \A t \in Threads : in_flight[t].pc = "idle"
    /\ passed.largest = 10
    /\ metrics.max_queue_depth = 3

\* C40: whatever record_solana_message, record_binance_message and record_error
\* calls came before, get_metrics returns, and its processing_efficiency_pct lies
\* between 0 and 100 percent.
C40_EfficiencyWithinPercentRange ==
    performance # NoMetrics
    => /\ performance.kind = "Ok"
       /\ performance.processing_efficiency_pct >= 0
       /\ performance.processing_efficiency_pct <= 10000

\* get_metrics was called with more errors than messages recorded
C40_MoreErrorsThanMessages ==
    /\ performance.kind \in {"Ok", "Panic"}
    /\ performance.kind = "Ok" => performance.processing_efficiency_pct > 10000
    /\ metrics.solana_messages + metrics.binance_messages = 1
    /\ metrics.processing_errors = 2


----------------------------------------------------------------------------
(* Properties of a feed whose connection attempts all fail, checked under        *)
(* SpecFeed                                                                      *)

\* the connection attempts a feed makes before it gives up: one sweep of its
\* providers for the first try and for each of the max_attempts retries
AttemptsBeforeGivingUp ==
    (handler.config.max_attempts + 1) * feed.providers

\* C36: with max_attempts = N and no limit on the total duration, a feed none of
\* whose connection attempts succeeds never makes more than (N+1)*P attempts (P the
\* number of its providers, 1 for Binance), it has returned as soon as it has made
\* that many, and when it has returned its result is ReconnectFailed and it has
\* made exactly that many.
C36_GivesUpAfterBoundedAttempts ==
    (/\ handler.config.max_attempts # NoLimit
     /\ handler.config.max_total_duration = NoLimit
     /\ feed.failed_attempts # NoCount
     /\ feed.pc # "unbuilt")
    => /\ feed.failed_attempts <= AttemptsBeforeGivingUp
       /\ feed.failed_attempts = AttemptsBeforeGivingUp => feed.pc = "done"
       /\ feed.pc = "done"
          => /\ feed.result = "ReconnectFailed"
             /\ feed.failed_attempts = AttemptsBeforeGivingUp

\* a Solana client with two providers and max_attempts = 2 has returned
\* ReconnectFailed after six failed connection attempts
C36_SixAttemptsWitness ==
    /\ feed.source = "Solana"
    /\ feed.providers = 2
    /\ handler.config.max_attempts = 2
    /\ handler.config.max_total_duration = NoLimit
    /\ feed.result = "ReconnectFailed"
    /\ feed.failed_attempts = 6


----------------------------------------------------------------------------
(* Properties of the locks of the store, checked under FairSpecStore *)

\* a thread is inside get_both_prices
InGetBothPrices ==
    pc \in {"lock_solana", "lock_binance", "clone_solana", "clone_binance",
            "return_pair"}

\* C37: the two writers, the cleanup and the reader never deadlock on the two slot
\* locks. Locks are held across steps only by a thread inside get_both_prices, whose
\* next acquisition is a read lock, and the Binance lock only together with the
\* Solana lock; every get_both_prices and every clear_stale_prices that has started
\* completes, and each lock is free for its writer again and again.
C37_NoDeadlockOnSlotLocks ==
    /\ []((read_locks # NoLocks)
          => /\ pc \in {"lock_binance", "clone_solana", "clone_binance",
                        "return_pair"}
             /\ read_locks.solana_price = 1
             /\ read_locks.binance_price \in {0, 1})
    /\ InGetBothPrices ~> ~InGetBothPrices
    /\ (cleanup_pc = "binance") ~> (cleanup_pc = "solana")
    /\ \A source \in Sources : []<>CanWrite(source)

\* the cleanup has cleared the Solana slot and waits for the write lock of the
\* Binance slot while a reader holds both read guards
C37_CleanupWaitsForReader ==
    /\ cleanup_pc = "binance"
    /\ ~CanWrite("Binance")
    /\ pc = "clone_solana"


----------------------------------------------------------------------------
(* Properties of the source tags, checked under SpecShutdown *)

\* the source whose slot a feed must leave alone
OtherSource(source) == IF source = "Solana" THEN "Binance" ELSE "Solana"

\* C38: the Solana slot is empty or holds a price tagged Solana and the Binance
\* slot is empty or holds one tagged Binance, the prices a snapshot has cloned
\* carry the tag of their slot, and no step of a feed changes the slot of the
\* other source.
C38_SlotsCarryMatchingTags ==
    /\ [](\A source \in Sources :
             /\ price_cache[SlotOf(source)] # None
                => price_cache[SlotOf(source)].source = source
             /\ snap[SlotOf(source)] # None
                => snap[SlotOf(source)].source = source)
    /\ [][price_cache'[SlotOf(OtherSource(feed.source))]
          = price_cache[SlotOf(OtherSource(feed.source))]]_vars

\* a snapshot holds both prices after the feed has pushed one to its slot
C38_SnapshotOfBothFeeds ==
    /\ pc = "return_pair"
    /\ last_pushed[feed.source] # NoUpdate
    /\ snap.solana_price.source = "Solana"
    /\ snap.binance_price.source = "Binance"
    /\ snap[SlotOf(feed.source)].price = last_pushed[feed.source].price


----------------------------------------------------------------------------
(* Properties of the two decode paths, checked under SpecDecode *)

\* C39: the strict and the fallback path read the reserves from the same bytes:
\* whenever both paths decode the account data a session received (the strict
\* layout with pool_base_token_amount and pool_quote_token_amount where the struct
\* has them, the fallback at its offsets 232 and 240) they give the same price.
C39_PathsGiveSamePrice ==
    feed.frame.form = "Blob"
    => LET strict == calculate_price(PoolStateOf(feed.frame.blob))
           fallback == extract_price_from_raw_data(feed.frame.blob)
       IN  (strict.ok /\ fallback.ok) => strict.price = fallback.price

\* a session has received account data that the strict layout prices at 1000.0
\* and the fallback at 200.0
C39_PathsDisagree ==
    /\ feed.frame.form = "Blob"
    /\ calculate_price(PoolStateOf(feed.frame.blob)) = DecodeOk(10000)
    /\ extract_price_from_raw_data(feed.frame.blob) = DecodeOk(2000)

====
